---------------------------- MODULE Spec2Model ----------------------------
(***************************************************************************)
(* A model of the sparse exponent vectors (ETuple) and the polynomial      *)
(* dictionaries (PolyDict) of src/sage/numerical/backends/cvxpy_backend.pyx *)
(* (the file holds the polydict module from line 636 on).                  *)
(*                                                                         *)
(* An ETuple is the record [length, data]: data is the C array _data read  *)
(* as the sequence of its (index, value) pairs, so _nonzero = Len(data).   *)
(* C ints are IntBits wide and wrap around (two's complement).             *)
(***************************************************************************)
EXTENDS Integers, Sequences, FiniteSets, TLC

VARIABLES
    \* the ETuple session: the two vectors, the int argument of eadd_scaled,
    \* the operation called last and what it gave back
    a, b, scalar, pc, res,
    \* the PolyDict session: the list f was constructed from, the PolyDicts
    \* f and g, the PolyDict r made by the last operation (or changed in
    \* place by it), the exception it raised, the positions passed to
    \* derivative_i and integral_i, the operation called last, and the
    \* right-hand side of the last comparison with what it gave back (in
    \* the product and valuation session q holds what f * g or
    \* f.valuation() gave back)
    pdlist, f, g, r, perr, pdi, pdj, pdpc, q, cmpres,
    \* the Flag session: the Flag the methods are called on, the second
    \* Flag of a comparison, the arguments of the last subflag call, the
    \* method called last, what it gave back and what a second call gave
    flagS, flagT, fargs, fpc, fres, fres2,
    \* the Pattern session: the Pattern, the call made last and its result
    patt, ppc, pres,
    \* the generator session: the arguments of possible_mergings and the
    \* local variables of the running call; the densities, cache,
    \* relabelling, cancellation and backend sessions keep the arguments of
    \* the call made last in gin and the object or loop state in gst
    gin, gst

etVars == <<a, b, scalar, pc, res>>
pdVars == <<pdlist, f, g, r, perr, pdi, pdj, pdpc, q, cmpres>>
fsVars == <<flagS, flagT, fargs, fpc, fres, fres2>>
ptVars == <<patt, ppc, pres>>
gnVars == <<gin, gst>>
flVars == <<fsVars, ptVars, gnVars>>
vars == <<etVars, pdVars, flVars>>

---------------------------------------------------------------------------
(* Bounds *)

\* width of the C int that holds an exponent (32 in the build)
IntBits == 3
\* largest logical length of an ETuple drawn as an input
MaxLen == 2
\* largest number of [coefficient, exponents] pairs in the list a PolyDict
\* is constructed from
MaxTerms == 2
\* largest number of points of a Flag drawn as an input
MaxPoints == 3

RECURSIVE Pow2(_)
Pow2(n) == IF n = 0 THEN 1 ELSE 2 * Pow2(n - 1)

Modulus == Pow2(IntBits)
MaxInt == Pow2(IntBits - 1) - 1
MinInt == 0 - Pow2(IntBits - 1)

\* the value a C int holds after an arithmetic result x is stored in it
Wrap(x) == ((x - MinInt) % Modulus) + MinInt
InRange(x) == MinInt <= x /\ x <= MaxInt

\* entries of the input vectors: the extremes of the int range and the
\* values around zero
Vals == {MinInt, -1, 0, 1, MaxInt}
Scalars == {MinInt, -1, 0, 1, 2, MaxInt}

DenseTuples == UNION {[1..n -> Vals] : n \in 0..MaxLen}

---------------------------------------------------------------------------
(* What a call gives back: a value or a raised exception *)

NoETuple == [length |-> 0, data |-> <<>>]
Return(e) == [err |-> "none", et |-> e, bv |-> FALSE, iv |-> 0]
ReturnBool(v) == [err |-> "none", et |-> NoETuple, bv |-> v, iv |-> 0]
ReturnInt(v) == [err |-> "none", et |-> NoETuple, bv |-> FALSE, iv |-> v]
Raise(e) == [err |-> e, et |-> NoETuple, bv |-> FALSE, iv |-> 0]

---------------------------------------------------------------------------
(* ETuple *)

nonzero(self) == Len(self.data)
\* _data[2*ind] and _data[2*ind+1], ind counted from 0 as in the code
IndexAt(self, ind) == self.data[ind + 1][1]
ValueAt(self, ind) == self.data[ind + 1][2]

RECURSIVE ETuple_init_loop(_, _)
ETuple_init_loop(d, i) ==
    IF i > Len(d) THEN <<>>
    ELSE IF d[i] # 0 THEN << <<i - 1, d[i]>> >> \o ETuple_init_loop(d, i + 1)
    ELSE ETuple_init_loop(d, i + 1)

\* ETuple(list or tuple)
ETuple(d) == [length |-> Len(d), data |-> ETuple_init_loop(d, 1)]

RECURSIVE get_exp_loop(_, _, _)
get_exp_loop(self, i, ind) ==
    IF ind >= nonzero(self) THEN 0
    ELSE IF IndexAt(self, ind) = i THEN ValueAt(self, ind)
    ELSE IF IndexAt(self, ind) > i THEN 0
    ELSE get_exp_loop(self, i, ind + 1)

\* self[i] for an integer i
get_exp(self, i) == get_exp_loop(self, i, 0)

RECURSIVE ETuple_iter_loop(_, _, _)
ETuple_iter_loop(self, i, ind) ==
    IF i >= self.length THEN <<>>
    ELSE IF ind >= nonzero(self) THEN <<0>> \o ETuple_iter_loop(self, i + 1, ind)
    ELSE IF IndexAt(self, ind) = i
         THEN <<ValueAt(self, ind)>> \o ETuple_iter_loop(self, i + 1, ind + 1)
    ELSE <<0>> \o ETuple_iter_loop(self, i + 1, ind)

\* tuple(self)
ETuple_iter(self) == ETuple_iter_loop(self, 0, 0)

\* one call of dual_etuple_iter: the new ind1, ind2 and the outputs
dual_etuple_iter_swapped(self, other, ind1, ind2) ==
    IF ind1 >= nonzero(self) /\ ind2 >= nonzero(other)
    THEN [more |-> FALSE, ind1 |-> ind1, ind2 |-> ind2, index |-> 0, exp1 |-> 0, exp2 |-> 0]
    ELSE IF ind1 < nonzero(self) /\ ind2 < nonzero(other)
    THEN IF IndexAt(self, ind1) = IndexAt(other, ind2)
         THEN [more |-> TRUE, ind1 |-> ind1 + 1, ind2 |-> ind2 + 1,
               index |-> IndexAt(self, ind1),
               exp1 |-> ValueAt(self, ind1), exp2 |-> ValueAt(other, ind2)]
         ELSE IF IndexAt(self, ind1) > IndexAt(other, ind2)
         THEN [more |-> TRUE, ind1 |-> ind1, ind2 |-> ind2 + 1,
               index |-> IndexAt(other, ind2),
               exp1 |-> ValueAt(other, ind2), exp2 |-> 0]
         ELSE [more |-> TRUE, ind1 |-> ind1 + 1, ind2 |-> ind2,
               index |-> IndexAt(self, ind1),
               exp1 |-> ValueAt(self, ind1), exp2 |-> 0]
    ELSE IF ind2 >= nonzero(other)
    THEN [more |-> TRUE, ind1 |-> ind1 + 1, ind2 |-> ind2,
          index |-> IndexAt(self, ind1),
          exp1 |-> ValueAt(self, ind1), exp2 |-> 0]
    ELSE [more |-> TRUE, ind1 |-> ind1, ind2 |-> ind2 + 1,
          index |-> IndexAt(other, ind2),
          exp1 |-> 0, exp2 |-> ValueAt(other, ind2)]

dual_etuple_iter(self, other, ind1, ind2) ==
    IF ind1 >= nonzero(self) /\ ind2 >= nonzero(other)
    THEN [more |-> FALSE, ind1 |-> ind1, ind2 |-> ind2, index |-> 0, exp1 |-> 0, exp2 |-> 0]
    ELSE IF ind1 < nonzero(self) /\ ind2 < nonzero(other)
    THEN IF IndexAt(self, ind1) = IndexAt(other, ind2)
         THEN [more |-> TRUE, ind1 |-> ind1 + 1, ind2 |-> ind2 + 1,
               index |-> IndexAt(self, ind1),
               exp1 |-> ValueAt(self, ind1), exp2 |-> ValueAt(other, ind2)]
         ELSE IF IndexAt(self, ind1) > IndexAt(other, ind2)
         THEN [more |-> TRUE, ind1 |-> ind1, ind2 |-> ind2 + 1,
               index |-> IndexAt(other, ind2),
               exp1 |-> 0, exp2 |-> ValueAt(other, ind2)]
         ELSE [more |-> TRUE, ind1 |-> ind1 + 1, ind2 |-> ind2,
               index |-> IndexAt(self, ind1),
               exp1 |-> ValueAt(self, ind1), exp2 |-> 0]
    ELSE IF ind2 >= nonzero(other)
    THEN [more |-> TRUE, ind1 |-> ind1 + 1, ind2 |-> ind2,
          index |-> IndexAt(self, ind1),
          exp1 |-> ValueAt(self, ind1), exp2 |-> 0]
    ELSE [more |-> TRUE, ind1 |-> ind1, ind2 |-> ind2 + 1,
          index |-> IndexAt(other, ind2),
          exp1 |-> 0, exp2 |-> ValueAt(other, ind2)]

\* the test after s = exp1 + exp2 in eadd and eadd_scaled
AddOverflows_OnlyUp(exp1, exp2, s) == exp2 > 0 /\ s < exp1

AddOverflows(exp1, exp2, s) ==
    (exp2 > 0 /\ s < exp1) \/ (exp2 < 0 /\ s > exp1)

\* the test after d = exp1 - exp2 in esub
SubOverflows(exp1, exp2, d) ==
    (exp2 > 0 /\ d > exp1) \/ (exp2 < 0 /\ d < exp1)

RECURSIVE eadd_loop(_, _, _, _, _)
eadd_loop(self, other, ind1, ind2, acc) ==
    LET it == dual_etuple_iter(self, other, ind1, ind2)
        s == Wrap(it.exp1 + it.exp2)
    IN  IF ~it.more THEN Return([length |-> self.length, data |-> acc])
        ELSE IF AddOverflows(it.exp1, it.exp2, s) THEN Raise("OverflowError")
        ELSE eadd_loop(self, other, it.ind1, it.ind2,
                       IF s # 0 THEN Append(acc, <<it.index, s>>) ELSE acc)

eadd(self, other) ==
    IF self.length # other.length THEN Raise("ArithmeticError")
    ELSE eadd_loop(self, other, 0, 0, <<>>)

RECURSIVE eadd_scaled_loop(_, _, _, _, _, _)
eadd_scaled_loop(self, other, k, ind1, ind2, acc) ==
    LET it == dual_etuple_iter(self, other, ind1, ind2)
        exp2 == Wrap(it.exp2 * k)
        s == Wrap(it.exp1 + exp2)
    IN  IF ~it.more THEN Return([length |-> self.length, data |-> acc])
        ELSE IF AddOverflows(it.exp1, exp2, s) THEN Raise("OverflowError")
        ELSE eadd_scaled_loop(self, other, k, it.ind1, it.ind2,
                              IF s # 0 THEN Append(acc, <<it.index, s>>) ELSE acc)

eadd_scaled(self, other, k) ==
    IF self.length # other.length THEN Raise("ArithmeticError")
    ELSE eadd_scaled_loop(self, other, k, 0, 0, <<>>)

RECURSIVE esub_loop(_, _, _, _, _)
esub_loop(self, other, ind1, ind2, acc) ==
    LET it == dual_etuple_iter(self, other, ind1, ind2)
        d == Wrap(it.exp1 - it.exp2)
    IN  IF ~it.more THEN Return([length |-> self.length, data |-> acc])
        ELSE IF SubOverflows(it.exp1, it.exp2, d) THEN Raise("OverflowError")
        ELSE esub_loop(self, other, it.ind1, it.ind2,
                       IF d # 0 THEN Append(acc, <<it.index, d>>) ELSE acc)

esub(self, other) ==
    IF self.length # other.length THEN Raise("ArithmeticError")
    ELSE esub_loop(self, other, 0, 0, <<>>)

RECURSIVE emax_loop(_, _, _, _, _)
emax_loop(self, other, ind1, ind2, acc) ==
    LET it == dual_etuple_iter(self, other, ind1, ind2)
    IN  IF ~it.more THEN Return([length |-> self.length, data |-> acc])
        ELSE emax_loop(self, other, it.ind1, it.ind2,
                 IF it.exp1 >= it.exp2 /\ it.exp1 # 0 THEN Append(acc, <<it.index, it.exp1>>)
                 ELSE IF it.exp2 >= it.exp1 /\ it.exp2 # 0 THEN Append(acc, <<it.index, it.exp2>>)
                 ELSE acc)

emax_unchecked(self, other) == emax_loop(self, other, 0, 0, <<>>)

emax(self, other) ==
    IF self.length # other.length THEN Raise("ArithmeticError")
    ELSE emax_loop(self, other, 0, 0, <<>>)

RECURSIVE emin_loop(_, _, _, _, _)
emin_loop(self, other, ind1, ind2, acc) ==
    LET it == dual_etuple_iter(self, other, ind1, ind2)
    IN  IF ~it.more THEN Return([length |-> self.length, data |-> acc])
        ELSE emin_loop(self, other, it.ind1, it.ind2,
                 IF it.exp1 <= it.exp2 /\ it.exp1 # 0 THEN Append(acc, <<it.index, it.exp1>>)
                 ELSE IF it.exp2 <= it.exp1 /\ it.exp2 # 0 THEN Append(acc, <<it.index, it.exp2>>)
                 ELSE acc)

emin(self, other) ==
    IF self.length # other.length THEN Raise("ArithmeticError")
    ELSE emin_loop(self, other, 0, 0, <<>>)

RECURSIVE dotprod_loop(_, _, _, _, _)
dotprod_loop(self, other, ind1, ind2, result) ==
    LET it == dual_etuple_iter(self, other, ind1, ind2)
    IN  IF ~it.more THEN ReturnInt(result)
        ELSE dotprod_loop(self, other, it.ind1, it.ind2,
                          Wrap(result + Wrap(it.exp1 * it.exp2)))

dotprod(self, other) ==
    IF self.length # other.length THEN Raise("ArithmeticError")
    ELSE dotprod_loop(self, other, 0, 0, 0)

\* the inner "while ind2 < othernz and other._data[ind2] < position"
RECURSIVE SkipBelow(_, _, _)
SkipBelow(other, ind2, position) ==
    IF ind2 < nonzero(other) /\ IndexAt(other, ind2) < position
    THEN SkipBelow(other, ind2 + 1, position)
    ELSE ind2

\* the rest of self copied once other is used up
RECURSIVE CopyRest(_, _, _)
CopyRest(self, ind1, acc) ==
    IF ind1 < nonzero(self)
    THEN CopyRest(self, ind1 + 1, Append(acc, <<IndexAt(self, ind1), ValueAt(self, ind1)>>))
    ELSE acc

\* ind1 and ind2 count pairs here; the code counts ints, in steps of 2
RECURSIVE divide_by_gcd_loop(_, _, _, _, _)
divide_by_gcd_loop(self, other, ind1, ind2, acc) ==
    IF ind1 >= nonzero(self) THEN Return([length |-> self.length, data |-> acc])
    ELSE LET position == IndexAt(self, ind1)
             exponent == ValueAt(self, ind1)
             j == SkipBelow(other, ind2, position)
         IN  IF j = nonzero(other)
             THEN Return([length |-> self.length, data |-> CopyRest(self, ind1, acc)])
             ELSE divide_by_gcd_loop(self, other, ind1 + 1, j,
                    IF IndexAt(other, j) > position
                    THEN Append(acc, <<position, exponent>>)
                    ELSE IF ValueAt(other, j) < exponent
                    THEN Append(acc, <<position, Wrap(exponent - ValueAt(other, j))>>)
                    ELSE acc)

divide_by_gcd(self, other) == divide_by_gcd_loop(self, other, 0, 0, <<>>)

\* the while loop of divides: the ind2 it stops at, or -1 for "return False"
RECURSIVE divides_skip(_, _, _)
divides_skip(other, ind2, pos1) ==
    IF IndexAt(other, ind2) < pos1
    THEN IF ind2 + 1 >= nonzero(other) THEN -1
         ELSE divides_skip(other, ind2 + 1, pos1)
    ELSE ind2

\* the test that makes divides give up at a position
divides_fails_at_strict(other, j, pos1, exp1) ==
    IndexAt(other, j) > pos1 \/ ValueAt(other, j) <= exp1

divides_fails_at(other, j, pos1, exp1) ==
    IndexAt(other, j) > pos1 \/ ValueAt(other, j) < exp1

RECURSIVE divides_loop(_, _, _, _)
divides_loop(self, other, ind1, ind2) ==
    IF ind1 >= nonzero(self) THEN TRUE
    ELSE LET pos1 == IndexAt(self, ind1)
             exp1 == ValueAt(self, ind1)
             j == divides_skip(other, ind2, pos1)
         IN  IF j = -1 THEN FALSE
             ELSE IF divides_fails_at(other, j, pos1, exp1) THEN FALSE
             ELSE divides_loop(self, other, ind1 + 1, j)

divides(self, other) ==
    IF nonzero(self) > nonzero(other) THEN ReturnBool(FALSE)
    ELSE ReturnBool(divides_loop(self, other, 0, 0))

---------------------------------------------------------------------------
(* Comparison *)

\* Python's comparison of two tuples of ints: the first position where they
\* differ decides, and a proper prefix is the smaller
RECURSIVE TupleLt(_, _)
TupleLt(s, t) ==
    IF s = <<>> THEN t # <<>>
    ELSE IF t = <<>> THEN FALSE
    ELSE IF Head(s) # Head(t) THEN Head(s) < Head(t)
    ELSE TupleLt(Tail(s), Tail(t))

TupleCmp(s, t, op) ==
    CASE op = "LT" -> TupleLt(s, t)
      [] op = "GT" -> TupleLt(t, s)
      [] op = "LE" -> ~TupleLt(t, s)
      [] op = "GE" -> ~TupleLt(s, t)
      [] op = "EQ" -> s = t
      [] op = "NE" -> s # t

RECURSIVE richcmp_eq_loop(_, _, _)
richcmp_eq_loop(self, other, ind) ==
    IF ind >= nonzero(self) THEN self.length = other.length
    ELSE IF IndexAt(self, ind) # IndexAt(other, ind) THEN FALSE
    ELSE IF ValueAt(self, ind) # ValueAt(other, ind) THEN FALSE
    ELSE richcmp_eq_loop(self, other, ind + 1)

richcmp_eq(self, other) ==
    IF nonzero(self) # nonzero(other) THEN FALSE
    ELSE richcmp_eq_loop(self, other, 0)

RECURSIVE richcmp_lt_loop(_, _, _)
richcmp_lt_loop(self, other, ind) ==
    IF ind < nonzero(self) /\ ind < nonzero(other)
    THEN IF IndexAt(self, ind) < IndexAt(other, ind) THEN ValueAt(self, ind) < 0
         ELSE IF IndexAt(self, ind) > IndexAt(other, ind) THEN ValueAt(other, ind) > 0
         ELSE IF ValueAt(self, ind) # ValueAt(other, ind)
              THEN ValueAt(self, ind) < ValueAt(other, ind)
         ELSE richcmp_lt_loop(self, other, ind + 1)
    ELSE IF ind < nonzero(self) /\ ind = nonzero(other) THEN ValueAt(self, ind) < 0
    ELSE IF ind < nonzero(other) /\ ind = nonzero(self) THEN ValueAt(other, ind) > 0
    ELSE self.length < other.length

RECURSIVE richcmp_gt_loop(_, _, _)
richcmp_gt_loop(self, other, ind) ==
    IF ind < nonzero(self) /\ ind < nonzero(other)
    THEN IF IndexAt(self, ind) < IndexAt(other, ind) THEN ValueAt(self, ind) > 0
         ELSE IF IndexAt(self, ind) > IndexAt(other, ind) THEN ValueAt(other, ind) < 0
         ELSE IF ValueAt(self, ind) # ValueAt(other, ind)
              THEN ValueAt(self, ind) > ValueAt(other, ind)
         ELSE richcmp_gt_loop(self, other, ind + 1)
    ELSE IF ind < nonzero(self) /\ ind = nonzero(other) THEN ValueAt(self, ind) > 0
    ELSE IF ind < nonzero(other) /\ ind = nonzero(self) THEN ValueAt(other, ind) < 0
    ELSE self.length < other.length

\* ETuple.__richcmp__
ETuple_richcmp(self, other, op) ==
    CASE op = "EQ" -> richcmp_eq(self, other)
      [] op = "LT" -> richcmp_lt_loop(self, other, 0)
      [] op = "GT" -> richcmp_gt_loop(self, other, 0)
      [] op = "LE" -> TupleCmp(ETuple_iter(self), ETuple_iter(other), "LE")
      [] op = "NE" -> TupleCmp(ETuple_iter(self), ETuple_iter(other), "NE")
      [] op = "GE" -> TupleCmp(ETuple_iter(self), ETuple_iter(other), "GE")

CmpOps == {"LT", "GT", "LE", "GE", "EQ", "NE"}

\* eadd_p: the entries of self below pos
RECURSIVE CountBelow(_, _, _)
CountBelow(self, sindex, pos) ==
    IF sindex < nonzero(self) /\ IndexAt(self, sindex) < pos
    THEN CountBelow(self, sindex + 1, pos)
    ELSE sindex

eadd_p(self, other, pos) ==
    IF pos >= self.length THEN Raise("ValueError")
    ELSE IF other = 0 THEN Return(self)
    ELSE LET sindex == CountBelow(self, 0, pos)
             below == SubSeq(self.data, 1, sindex)
         IN  IF sindex < nonzero(self) /\ IndexAt(self, sindex) = pos
             THEN LET new_value == Wrap(ValueAt(self, sindex) + other)
                      rest == SubSeq(self.data, sindex + 2, nonzero(self))
                  IN  Return([length |-> self.length,
                              data |-> IF new_value # 0
                                       THEN below \o << <<pos, new_value>> >> \o rest
                                       ELSE below \o rest])
             ELSE Return([length |-> self.length,
                          data |-> below \o << <<pos, other>> >>
                                   \o SubSeq(self.data, sindex + 1, nonzero(self))])

---------------------------------------------------------------------------
(* Coefficients: rational numbers <<numerator, denominator>> in lowest     *)
(* terms, the denominator positive                                         *)

Abs(x) == IF x < 0 THEN 0 - x ELSE x

RECURSIVE Gcd(_, _)
Gcd(x, y) == IF y = 0 THEN x ELSE Gcd(y, x % y)

Rat(n, d) ==
    LET sgn == IF d < 0 THEN -1 ELSE 1
        gg == Gcd(Abs(n), Abs(d))
    IN  <<(sgn * n) \div gg, (sgn * d) \div gg>>

RatIsZero(c) == c[1] = 0
RatNeg(c) == <<0 - c[1], c[2]>>
RatAdd(c, d) == Rat(c[1] * d[2] + d[1] * c[2], c[2] * d[2])
RatSub(c, d) == Rat(c[1] * d[2] - d[1] * c[2], c[2] * d[2])
RatMulInt(c, n) == Rat(c[1] * n, c[2])
RatDivInt(c, n) == Rat(c[1], c[2] * n)

---------------------------------------------------------------------------
(* PolyDict: __repn is a Python dict, here the sequence of its             *)
(* <<key, value>> items in insertion order                                 *)

DictIndex(D, k) ==
    LET S == {j \in 1..Len(D) : richcmp_eq(D[j][1], k)}
    IN  IF S = {} THEN 0 ELSE CHOOSE j \in S : TRUE

DictHas(D, k) == DictIndex(D, k) # 0
DictGet(D, k) == D[DictIndex(D, k)][2]

\* D[k] = v
DictSet(D, k, v) ==
    IF DictHas(D, k)
    THEN [D EXCEPT ![DictIndex(D, k)] = <<D[DictIndex(D, k)][1], v>>]
    ELSE Append(D, <<k, v>>)

\* D == R on two dicts, taken after explicit zero removal
DictEq_without_zeros(D, R) ==
    LET DD == SelectSeq(D, LAMBDA t : ~RatIsZero(t[2]))
        RR == SelectSeq(R, LAMBDA t : ~RatIsZero(t[2]))
    IN  /\ Len(DD) = Len(RR)
        /\ \A j \in 1..Len(DD) :
              /\ DictHas(RR, DD[j][1])
              /\ DictGet(RR, DD[j][1]) = DD[j][2]

\* D == R on two dicts
DictEq(D, R) ==
    /\ Len(D) = Len(R)
    /\ \A j \in 1..Len(D) :
          /\ DictHas(R, D[j][1])
          /\ DictGet(R, D[j][1]) = D[j][2]

remove_zeros(D) == SelectSeq(D, LAMBDA t : ~RatIsZero(t[2]))

RECURSIVE PolyDict_init_loop(_, _, _)
PolyDict_init_loop(L, j, v) ==
    IF j > Len(L) THEN v
    ELSE PolyDict_init_loop(L, j + 1, DictSet(v, ETuple(L[j][2]), L[j][1]))

\* PolyDict(pdict, remove_zero=...) for a list pdict of [coefficient, exponents]
PolyDict_init(L, remove_zero) ==
    LET v == PolyDict_init_loop(L, 1, <<>>)
    IN  IF remove_zero THEN remove_zeros(v) ELSE v

RECURSIVE PolyDict_neg_loop(_, _)
PolyDict_neg_loop(D, j) ==
    IF j > Len(D) THEN D
    ELSE PolyDict_neg_loop(DictSet(D, D[j][1], RatNeg(D[j][2])), j + 1)

PolyDict_neg(self) == PolyDict_neg_loop(self, 1)

RECURSIVE PolyDict_add_loop(_, _, _)
PolyDict_add_loop(D, R, j) ==
    IF j > Len(R) THEN D
    ELSE LET e == R[j][1]
             c == R[j][2]
         IN  PolyDict_add_loop(
                 IF DictHas(D, e) THEN DictSet(D, e, RatAdd(DictGet(D, e), c))
                 ELSE DictSet(D, e, c),
                 R, j + 1)

PolyDict_add(self, other) ==
    IF Len(self) < Len(other)
    THEN PolyDict_add_loop(other, self, 1)
    ELSE PolyDict_add_loop(self, other, 1)

RECURSIVE PolyDict_sub_loop(_, _, _)
PolyDict_sub_loop(D, R, j) ==
    IF j > Len(R) THEN D
    ELSE LET e == R[j][1]
             c == R[j][2]
         IN  PolyDict_sub_loop(
                 IF DictHas(D, e) THEN DictSet(D, e, RatSub(DictGet(D, e), c))
                 ELSE DictSet(D, e, RatNeg(c)),
                 R, j + 1)

\* self - other with the zero results dropped
PolyDict_sub_removing_zeros(self, other) ==
    remove_zeros(PolyDict_sub_loop(self, other, 1))

PolyDict_sub(self, other) == PolyDict_sub_loop(self, other, 1)

\* what a PolyDict method gives back: a PolyDict or a raised exception
PDReturn(D) == [err |-> "none", pd |-> D]
PDRaise(e) == [err |-> e, pd |-> <<>>]

\* the coefficient derivative_i stores for the term (e, c)
derivative_coef_shifted(c, e, i) == RatMulInt(c, get_exp(e, i) - 1)

derivative_coef(c, e, i) == RatMulInt(c, get_exp(e, i))

RECURSIVE derivative_i_loop(_, _, _, _)
derivative_i_loop(self, i, j, D) ==
    IF j > Len(self) THEN PDReturn(D)
    ELSE LET e == self[j][1]
             c == self[j][2]
             key == eadd_p(e, -1, i)
         IN  IF key.err # "none" THEN PDRaise(key.err)
             ELSE derivative_i_loop(self, i, j + 1,
                                    DictSet(D, key.et, derivative_coef(c, e, i)))

derivative_i(self, i) == derivative_i_loop(self, i, 1, <<>>)

RECURSIVE integral_i_loop(_, _, _, _)
integral_i_loop(self, i, j, D) ==
    IF j > Len(self) THEN PDReturn(D)
    ELSE LET e == self[j][1]
             c == self[j][2]
             exp == get_exp(e, i)
             key == eadd_p(e, 1, i)
         IN  IF exp = -1 THEN PDRaise("ArithmeticError")
             ELSE IF key.err # "none" THEN PDRaise(key.err)
             ELSE integral_i_loop(self, i, j + 1,
                                  DictSet(D, key.et, RatDivInt(c, Wrap(exp + 1))))

integral_i(self, i) == integral_i_loop(self, i, 1, <<>>)

\* PolyDict.rich_compare without a sortkey
rich_compare(self, other, op) ==
    IF op = "EQ" THEN [op |-> op, err |-> "none", bv |-> DictEq(self, other)]
    ELSE IF op = "NE" THEN [op |-> op, err |-> "none", bv |-> ~DictEq(self, other)]
    ELSE [op |-> op, err |-> "TypeError", bv |-> FALSE]

\* the multiplier of ETuple.__hash__
HashMult == 1000003

\* x ^ y on two non-negative ints below 2^n
RECURSIVE XorBits(_, _, _)
XorBits(x, y, n) ==
    IF n = 0 THEN 0
    ELSE (((x % 2) + (y % 2)) % 2) + 2 * XorBits(x \div 2, y \div 2, n - 1)

\* x ^ y on two C ints
Xor(x, y) == Wrap(XorBits(x % Modulus, y % Modulus, IntBits))

RECURSIVE ETuple_hash_loop(_, _, _)
ETuple_hash_loop(self, i, result) ==
    IF i >= nonzero(self) THEN Xor(Wrap(HashMult * result), self.length)
    ELSE LET r1 == Wrap(result + Xor(Wrap(HashMult * result), IndexAt(self, i)))
             r2 == Wrap(r1 + Xor(Wrap(HashMult * r1), ValueAt(self, i)))
         IN  ETuple_hash_loop(self, i + 1, r2)

ETuple_hash(self) == ETuple_hash_loop(self, 0, 0)

\* hash(frozenset(self.__repn.items())): a function of the set of the
\* items' hashes; a coefficient stands for its own hash
PolyDict_hash(self) ==
    {<<ETuple_hash(self[j][1]), self[j][2]>> : j \in 1..Len(self)}

---------------------------------------------------------------------------
(* Flags (src/sage/algebras/flag.pyx).  A Flag is the record of its theory, *)
(* _n, _ftype_points and _blocks; a block is the sequence of its tuples.   *)
(* The theories are the graphs (one unordered binary relation) and the     *)
(* digraphs (one ordered binary relation).                                 *)

Theories == {"Graph", "DiGraph"}

\* theory._signature
Signature(theory) ==
    IF theory = "Graph"
    THEN [edges |-> [arity |-> 2, ordered |-> FALSE, group |-> 0]]
    ELSE [edges |-> [arity |-> 2, ordered |-> TRUE, group |-> 0]]

\* an argument that may be left at its default None
NotGiven == [given |-> FALSE, v |-> <<>>]
Given(x) == [given |-> TRUE, v |-> x]

Range(t) == {t[j] : j \in 1..Len(t)}
\* tuple(range(n))
TupleRange(n) == [j \in 1..n |-> j - 1]
\* points.index(x), 0-based
Index(points, x) == (CHOOSE j \in 1..Len(points) :
                        /\ points[j] = x
                        /\ \A k \in 1..(j - 1) : points[k] # x) - 1

RECURSIVE insert_int(_, _)
insert_int(x, t) ==
    IF t = <<>> THEN <<x>>
    ELSE IF x < Head(t) THEN <<x>> \o t
    ELSE <<Head(t)>> \o insert_int(x, Tail(t))

\* sorted(yy) for a tuple of points
RECURSIVE sorted_ints(_)
sorted_ints(yy) ==
    IF yy = <<>> THEN <<>> ELSE insert_int(Head(yy), sorted_ints(Tail(yy)))

RECURSIVE insert_tuple(_, _)
insert_tuple(x, block) ==
    IF Len(block) = 0 THEN <<x>>
    ELSE IF TupleLt(x, Head(block)) THEN <<x>> \o block
    ELSE <<Head(block)>> \o insert_tuple(x, Tail(block))

\* sorted(block) for a list of tuples
RECURSIVE sorted_tuples(_)
sorted_tuples(block) ==
    IF Len(block) = 0 THEN <<>>
    ELSE insert_tuple(Head(block), sorted_tuples(Tail(block)))

\* the name a pattern's key stands for: xx itself, or xx[:-2]
StripSuffix(xx) == IF xx = "edges_o" THEN "edges" ELSE xx

\* the signature entry _standardize_blocks looks up for the key xx
standardize_key(xx, signature, pattern) ==
    IF pattern /\ xx \notin DOMAIN signature THEN StripSuffix(xx) ELSE xx

\* _standardize_blocks raises KeyError
standardize_fails(blocks, signature, pattern) ==
    \E xx \in DOMAIN blocks :
        standardize_key(xx, signature, pattern) \notin DOMAIN signature

_standardize_blocks(blocks, signature, pattern) ==
    [xx \in DOMAIN blocks |->
        IF signature[standardize_key(xx, signature, pattern)].ordered
        THEN sorted_tuples(blocks[xx])
        ELSE sorted_tuples([j \in 1..Len(blocks[xx]) |-> sorted_ints(blocks[xx][j])])]

\* Flag.__init__ (the caches start empty)
Flag(theory, n, ftype, params) ==
    [theory |-> theory, n |-> n, ftype_points |-> ftype,
     blocks |-> _standardize_blocks(params, Signature(theory), FALSE)]

\* what a Flag method gives back: a Flag, a truth value or a raised exception
NoFlag == [theory |-> "none", n |-> 0, ftype_points |-> <<>>,
           blocks |-> [edges |-> <<>>]]
FReturn(x) == [err |-> "none", flag |-> x, bv |-> FALSE]
FReturnBool(x) == [err |-> "none", flag |-> NoFlag, bv |-> x]
FRaise(e) == [err |-> e, flag |-> NoFlag, bv |-> FALSE]

\* theory.empty(): the structure on no points
empty(theory) ==
    Flag(theory, 0, <<>>, [xx \in DOMAIN Signature(theory) |-> <<>>])

_subblock_helper(points, block) ==
    IF Len(block) = 0 THEN <<>>
    ELSE LET gd == SelectSeq(block, LAMBDA xx : Range(xx) \subseteq Range(points))
         IN  [j \in 1..Len(gd) |-> [k \in 1..Len(gd[j]) |-> Index(points, gd[j][k])]]

is_ftype(self) == self.n = Len(self.ftype_points)

not_ftype_points(self) ==
    SelectSeq(TupleRange(self.n), LAMBDA ii : ii \notin Range(self.ftype_points))

\* Flag.subflag: len(points) is taken first, so points=None raises
\* TypeError and the branch for points == None is never reached
subflag(self, points, ftype_points) ==
    IF ~points.given THEN FRaise("TypeError")
    ELSE IF Len(points.v) = 0 THEN FReturn(empty(self.theory))
    ELSE LET ft == IF ftype_points.given THEN ftype_points.v ELSE self.ftype_points
             pts == points.v \o SelectSeq(ft, LAMBDA ii : ii \notin Range(points.v))
         IN  IF pts = TupleRange(self.n) /\ ft = self.ftype_points THEN FReturn(self)
             ELSE FReturn(Flag(self.theory, Len(pts),
                               [j \in 1..Len(ft) |-> Index(pts, ft[j])],
                               [xx \in DOMAIN self.blocks |->
                                   _subblock_helper(pts, self.blocks[xx])]))

\* Flag.ftype on a Flag whose _ftype is not cached yet: the assignment of
\* self for a type is overwritten by the second assignment
ftype(self) ==
    LET first == IF is_ftype(self) THEN self ELSE NoFlag
        second == subflag(self, Given(<<>>), NotGiven).flag
    IN  second

---------------------------------------------------------------------------
(* The certificate of a Flag: the symmetry graph and the canonical form    *)

\* the vertex of the tuple t of the block: tuple_vertices[rel_name][t]
TupleVertex(self, block, t) ==
    self.n + (CHOOSE j \in 1..Len(block) :
                 /\ block[j] = t
                 /\ \A k \in (j + 1)..Len(block) : block[k] # t) - 1

\* group_vertices[rel_name]
GroupVertex(self, block) == self.n + Len(block)

\* the edges (Vout[k], Vin[k], labels[k]) of the symmetry graph
SymmetryEdges(self) ==
    LET block == self.blocks.edges
        ordered == Signature(self.theory).edges.ordered
    IN  UNION {
            {<<GroupVertex(self, block), TupleVertex(self, block, block[j]), 0>>}
            \cup {<<block[j][k], TupleVertex(self, block, block[j]),
                    IF ordered THEN k ELSE 0>> : k \in 1..Len(block[j])}
            : j \in 1..Len(block)}

\* the partition with the type points always in one cell
SymmetryPartition_untyped(self, weak) ==
    <<self.ftype_points, not_ftype_points(self),
      <<GroupVertex(self, self.blocks.edges)>>,
      [j \in 1..Len(self.blocks.edges) |->
          TupleVertex(self, self.blocks.edges, self.blocks.edges[j])]>>

\* the partition of the symmetry graph's vertices
SymmetryPartition(self, weak) ==
    LET block == self.blocks.edges
        layer0 == IF weak
                  THEN <<self.ftype_points, not_ftype_points(self)>>
                  ELSE [j \in 1..Len(self.ftype_points) |-> <<self.ftype_points[j]>>]
                       \o <<not_ftype_points(self)>>
        layer2 == <<GroupVertex(self, block)>>
        layer1 == [j \in 1..Len(block) |-> TupleVertex(self, block, block[j])]
    IN  layer0 \o <<layer2, layer1>>

_symmetry_graph(self, weak) ==
    [vertices |-> self.n + Len(self.blocks.edges) + 1,
     edges |-> SymmetryEdges(self),
     partition |-> SymmetryPartition(self, weak)]

\* the orderings of the vertices of one cell
RECURSIVE CellOrders(_)
CellOrders(S) ==
    IF S = {} THEN {<<>>}
    ELSE UNION {{<<x>> \o p : p \in CellOrders(S \ {x})} : x \in S}

\* the orderings of all vertices that list the cells in the partition's
\* order
RECURSIVE VertexOrders(_)
VertexOrders(partition) ==
    IF Len(partition) = 0 THEN {<<>>}
    ELSE {p \o rest : p \in CellOrders(Range(Head(partition))),
                      rest \in VertexOrders(Tail(partition))}

\* the relabellings of the vertices that keep every vertex in the range of
\* labels of its cell, the cells taken in the partition's order
Relabellings(partition) ==
    {[v \in Range(order) |-> Index(order, v)] : order \in VertexOrders(partition)}

\* canonical_form_from_edge_list, a true canonical form: the relabelled
\* edge lists of the graph, which two graphs share exactly when a
\* relabelling that respects the partition carries one to the other
canonical_form_from_edge_list(graph) ==
    {{<<rl[e[1]], rl[e[2]], e[3]>> : e \in graph.edges}
        : rl \in Relabellings(graph.partition)}

\* Flag.unique(weak)[0] on a Flag whose certificate is not cached yet
unique(self, weak) ==
    [ftype_size |-> Len(self.ftype_points), weak |-> weak,
     edges |-> canonical_form_from_edge_list(_symmetry_graph(self, weak))]

weak_equal(self, other) ==
    IF self.theory # other.theory THEN FALSE
    ELSE IF Len(self.ftype_points) # Len(other.ftype_points) THEN FALSE
    ELSE unique(self, TRUE) = unique(other, TRUE)

normal_equal(self, other) ==
    IF self.theory # other.theory THEN FALSE
    ELSE IF Len(self.ftype_points) # Len(other.ftype_points) THEN FALSE
    ELSE unique(self, FALSE) = unique(other, FALSE)

\* strong_equal without the comparison of the type points
strong_equal_blocks_only(self, other) ==
    IF self.theory # other.theory THEN FALSE
    ELSE self.blocks = other.blocks

strong_equal(self, other) ==
    IF self.theory # other.theory THEN FALSE
    ELSE IF self.ftype_points # other.ftype_points THEN FALSE
    ELSE self.blocks = other.blocks

\* Flag.__eq__ on two Flags
Flag_eq(self, other) ==
    IF self.theory # other.theory THEN FALSE
    ELSE normal_equal(self, other)

\* itertools.combinations(points, k): the subsequences of length k
Combinations(points, k) ==
    {[j \in 1..k |-> points[idx[j]]] :
        idx \in {i \in [1..k -> 1..Len(points)] :
                    \A x, y \in 1..k : x < y => i[x] < i[y]}}

\* Flag.__lt__ on two Flags
Flag_lt(self, other) ==
    IF self.theory # other.theory THEN FALSE
    ELSE IF self.n >= other.n THEN FALSE
    ELSE IF ~Flag_eq(ftype(self), ftype(other)) THEN FALSE
    ELSE \E subp \in Combinations(not_ftype_points(other), self.n - ftype(self).n) :
            Flag_eq(self, subflag(other, Given(subp), NotGiven).flag)

\* Flag.__le__ on two Flags
Flag_le(self, other) == Flag_eq(self, other) \/ Flag_lt(self, other)

---------------------------------------------------------------------------
(* Each session leaves the other's variables alone *)

NoCmp == [op |-> "none", err |-> "none", bv |-> FALSE]

ETIdle ==
    /\ a = NoETuple
    /\ b = NoETuple
    /\ scalar = 0
    /\ pc = "idle"
    /\ res = Return(NoETuple)

PDIdle ==
    /\ pdlist = <<>>
    /\ f = <<>>
    /\ g = <<>>
    /\ r = <<>>
    /\ perr = "none"
    /\ pdi = 0
    /\ pdj = 0
    /\ pdpc = "idle"
    /\ q = <<>>
    /\ cmpres = NoCmp

NoArgs == [points |-> NotGiven, ftype_points |-> NotGiven]

FSIdle ==
    /\ flagS = NoFlag
    /\ flagT = NoFlag
    /\ fargs = NoArgs
    /\ fpc = "idle"
    /\ fres = FReturn(NoFlag)
    /\ fres2 = FReturn(NoFlag)

PTIdle ==
    /\ patt = NoFlag
    /\ ppc = "idle"
    /\ pres = FReturn(NoFlag)

GNIdle ==
    /\ gin = <<>>
    /\ gst = <<>>

FlIdle == FSIdle /\ PTIdle /\ GNIdle

---------------------------------------------------------------------------
(* The ETuple session: two vectors are constructed, then one operation is  *)
(* called on them; after a successful eadd its result may be passed to     *)
(* esub.                                                                   *)

ETuples == {ETuple(d) : d \in DenseTuples}

ETInit ==
    /\ a \in ETuples
    /\ b \in ETuples
    /\ scalar = 0
    /\ pc = "start"
    /\ res = Return(NoETuple)
    /\ PDIdle
    /\ FlIdle

Eadd ==
    /\ pc = "start"
    /\ pc' = "eadd"
    /\ res' = eadd(a, b)
    /\ UNCHANGED <<a, b, scalar, pdVars, flVars>>

EsubAfterEadd ==
    /\ pc = "eadd"
    /\ res.err = "none"
    /\ pc' = "eadd_esub"
    /\ res' = esub(res.et, b)
    /\ UNCHANGED <<a, b, scalar, pdVars, flVars>>

Esub ==
    /\ pc = "start"
    /\ pc' = "esub"
    /\ res' = esub(a, b)
    /\ UNCHANGED <<a, b, scalar, pdVars, flVars>>

EaddScaled ==
    /\ pc = "start"
    /\ \E k \in Scalars :
          /\ scalar' = k
          /\ res' = eadd_scaled(a, b, k)
    /\ pc' = "eadd_scaled"
    /\ UNCHANGED <<a, b, pdVars, flVars>>

Emax ==
    /\ pc = "start"
    /\ pc' = "emax"
    /\ res' = emax(a, b)
    /\ UNCHANGED <<a, b, scalar, pdVars, flVars>>

Emin ==
    /\ pc = "start"
    /\ pc' = "emin"
    /\ res' = emin(a, b)
    /\ UNCHANGED <<a, b, scalar, pdVars, flVars>>

Dotprod ==
    /\ pc = "start"
    /\ pc' = "dotprod"
    /\ res' = dotprod(a, b)
    /\ UNCHANGED <<a, b, scalar, pdVars, flVars>>

Divides ==
    /\ pc = "start"
    /\ pc' = "divides"
    /\ res' = divides(a, b)
    /\ UNCHANGED <<a, b, scalar, pdVars, flVars>>

DivideByGcd ==
    /\ pc = "start"
    /\ pc' = "divide_by_gcd"
    /\ res' = divide_by_gcd(a, b)
    /\ UNCHANGED <<a, b, scalar, pdVars, flVars>>

Richcmp ==
    /\ pc = "start"
    /\ \E op \in CmpOps :
          /\ pc' = op
          /\ res' = ReturnBool(ETuple_richcmp(a, b, op))
    /\ UNCHANGED <<a, b, scalar, pdVars, flVars>>

ETNext ==
    \/ Eadd
    \/ EsubAfterEadd
    \/ Esub
    \/ EaddScaled
    \/ Emax
    \/ Emin
    \/ Dotprod
    \/ Divides
    \/ DivideByGcd
    \/ Richcmp

SpecET == ETInit /\ [][ETNext]_vars

---------------------------------------------------------------------------
(* The PolyDict sessions.  f is constructed from a list and g is a second  *)
(* PolyDict; r starts as f.  In the arithmetic session one of f - f,       *)
(* f - g, f + g, -f or the construction with remove_zero=True makes r,     *)
(* remove_zeros() may then change r in place, and last r may be compared   *)
(* with f or with g + f.  In the calculus session derivative_i makes r and      *)
(* integral_i is called on it.                                             *)

Terms(K, C) == {<<c, k>> : c \in C, k \in K}
Lists(T, n) == UNION {[1..m -> T] : m \in 0..n}

\* exponent lists and coefficients of the arithmetic session
PDKeys == {<<0, 0>>, <<1, 0>>, <<-1, 2>>}
PDCoefs == {<<0, 1>>, <<1, 1>>, <<-1, 1>>}
GCoefs == {<<0, 1>>, <<1, 1>>}

\* exponent lists and coefficients of the calculus session
CalcKeys == {<<x, y>> : x \in Vals \cup {2}, y \in {0, 1}}
CalcCoefs == {<<1, 1>>, <<-1, 2>>}
PDPositions == {0, 1}

PDStart(T) ==
    /\ pdlist \in Lists(T, MaxTerms)
    /\ f = PolyDict_init(pdlist, FALSE)
    /\ r = f
    /\ perr = "none"
    /\ pdi = 0
    /\ pdj = 0
    /\ pdpc = "start"
    /\ q = <<>>
    /\ cmpres = NoCmp

PDInit ==
    /\ PDStart(Terms(PDKeys, PDCoefs))
    /\ g \in {PolyDict_init(l, FALSE) : l \in Lists(Terms(PDKeys, GCoefs), 1)}
    /\ ETIdle
    /\ FlIdle

CalcInit ==
    /\ PDStart(Terms(CalcKeys, CalcCoefs))
    /\ g = <<>>
    /\ ETIdle
    /\ FlIdle

ConstructRemoveZero ==
    /\ pdpc = "start"
    /\ cmpres.op = "none"
    /\ r' = PolyDict_init(pdlist, TRUE)
    /\ pdpc' = "init_rz"
    /\ UNCHANGED <<pdlist, f, g, perr, pdi, pdj, q, cmpres, etVars, flVars>>

SubSelf ==
    /\ pdpc = "start"
    /\ cmpres.op = "none"
    /\ r' = PolyDict_sub(r, r)
    /\ pdpc' = "sub_self"
    /\ UNCHANGED <<pdlist, f, g, perr, pdi, pdj, q, cmpres, etVars, flVars>>

Sub ==
    /\ pdpc = "start"
    /\ cmpres.op = "none"
    /\ r' = PolyDict_sub(r, g)
    /\ pdpc' = "sub"
    /\ UNCHANGED <<pdlist, f, g, perr, pdi, pdj, q, cmpres, etVars, flVars>>

Add ==
    /\ pdpc = "start"
    /\ cmpres.op = "none"
    /\ r' = PolyDict_add(r, g)
    /\ pdpc' = "add"
    /\ UNCHANGED <<pdlist, f, g, perr, pdi, pdj, q, cmpres, etVars, flVars>>

Neg ==
    /\ pdpc = "start"
    /\ cmpres.op = "none"
    /\ r' = PolyDict_neg(r)
    /\ pdpc' = "neg"
    /\ UNCHANGED <<pdlist, f, g, perr, pdi, pdj, q, cmpres, etVars, flVars>>

ArithOps == {"sub_self", "sub", "add", "neg"}

RemoveZeros ==
    /\ pdpc \in ArithOps \cup {"start"}
    /\ cmpres.op = "none"
    /\ r' = remove_zeros(r)
    /\ pdpc' = "remove_zeros"
    /\ UNCHANGED <<pdlist, f, g, perr, pdi, pdj, q, cmpres, etVars, flVars>>

RichCompare ==
    /\ cmpres.op = "none"
    /\ \E op \in {"EQ", "NE"}, t \in {f, PolyDict_add(g, f)} :
          /\ q' = t
          /\ cmpres' = rich_compare(r, t, op)
    /\ UNCHANGED <<pdlist, f, g, r, perr, pdi, pdj, pdpc, etVars, flVars>>

PDNext ==
    \/ ConstructRemoveZero
    \/ SubSelf
    \/ Sub
    \/ Add
    \/ Neg
    \/ RemoveZeros
    \/ RichCompare

SpecPD == PDInit /\ [][PDNext]_vars

DerivativeI ==
    /\ pdpc = "start"
    /\ \E i \in PDPositions :
          /\ pdi' = i
          /\ r' = derivative_i(r, i).pd
          /\ perr' = derivative_i(r, i).err
    /\ pdpc' = "derivative"
    /\ UNCHANGED <<pdlist, f, g, pdj, q, cmpres, etVars, flVars>>

IntegralI ==
    /\ pdpc = "derivative"
    /\ perr = "none"
    /\ \E j \in PDPositions :
          /\ pdj' = j
          /\ r' = integral_i(r, j).pd
          /\ perr' = integral_i(r, j).err
    /\ pdpc' = "integral"
    /\ UNCHANGED <<pdlist, f, g, pdi, q, cmpres, etVars, flVars>>

CalcNext ==
    \/ DerivativeI
    \/ IntegralI

SpecCalc == CalcInit /\ [][CalcNext]_vars

---------------------------------------------------------------------------
(* Properties of ETuple *)

Positions(e) == 0 .. (e.length - 1)
Min(x, y) == IF x <= y THEN x ELSE y

\* the data invariant of an ETuple: indices strictly increasing and inside
\* the logical length, no stored zero, every value a C int
WellFormed(e) ==
    /\ \A i \in 1..Len(e.data) :
          /\ e.data[i][1] \in Positions(e)
          /\ e.data[i][2] # 0
          /\ InRange(e.data[i][2])
    /\ \A i \in 1..(Len(e.data) - 1) : e.data[i][1] < e.data[i + 1][1]

NonNegative(e) == \A i \in Positions(e) : get_exp(e, i) >= 0

\* res holds the vector whose entry at every position i of a is F(i)
ResultIs(F(_)) ==
    /\ res.err = "none"
    /\ res.et.length = a.length
    /\ WellFormed(res.et)
    /\ \A i \in Positions(a) : get_exp(res.et, i) = F(i)

SumAt(i) == get_exp(a, i) + get_exp(b, i)
DiffAt(i) == get_exp(a, i) - get_exp(b, i)
ProdAt(i) == scalar * get_exp(b, i)
ScaledSumAt(i) == get_exp(a, i) + scalar * get_exp(b, i)
GcdQuotAt(i) == get_exp(a, i) - Min(get_exp(a, i), get_exp(b, i))

\* C1: each of a<b, a>b, a<=b, a>=b, a==b, a!=b gives what the same
\* comparison of the dense tuples tuple(a) and tuple(b) gives, for vectors
\* of any lengths.
C1_RichcmpMatchesDense ==
    pc \in CmpOps => res.bv = TupleCmp(ETuple_iter(a), ETuple_iter(b), pc)

\* C2: on vectors of equal length eadd (esub) returns the vector of the
\* exact sums (differences) when all of them fit in the int range, and
\* raises OverflowError when one of them does not.
C2_EaddEsubExact ==
    /\ (pc = "eadd" /\ a.length = b.length) =>
          IF \A i \in Positions(a) : InRange(SumAt(i))
          THEN ResultIs(SumAt)
          ELSE res.err = "OverflowError"
    /\ (pc = "esub" /\ a.length = b.length) =>
          IF \A i \in Positions(a) : InRange(DiffAt(i))
          THEN ResultIs(DiffAt)
          ELSE res.err = "OverflowError"

C2_Witness ==
    /\ pc = "eadd"
    /\ a.length = b.length
    /\ \E i \in Positions(a) : ~InRange(SumAt(i))
    /\ res.err = "OverflowError"

\* C3: on vectors of equal length eadd_scaled(b, k) returns the vector of
\* the exact values a[i] + k*b[i] when every product k*b[i] and every sum
\* fits in the int range, and raises OverflowError otherwise.
C3_EaddScaledExact ==
    (pc = "eadd_scaled" /\ a.length = b.length) =>
        IF \A i \in Positions(a) : InRange(ProdAt(i)) /\ InRange(ScaledSumAt(i))
        THEN ResultIs(ScaledSumAt)
        ELSE res.err = "OverflowError"

BinaryOps ==
    {"eadd", "esub", "eadd_scaled", "emax", "emin", "dotprod", "divides", "divide_by_gcd"}
CheckedOps == {"eadd", "esub", "eadd_scaled", "emax", "emin", "dotprod"}

C5_EaddEsubRoundTrip ==
    /\ pc = "eadd_esub" => (res.err = "none" /\ richcmp_eq(res.et, a))
    /\ (pc = "eadd" /\ res.err = "none") =>
          /\ eadd(b, a).err = "none"
          /\ richcmp_eq(res.et, eadd(b, a).et)

C5_Witness ==
    /\ pc = "eadd_esub"
    /\ nonzero(a) > 0
    /\ nonzero(b) > 0
    /\ a # b
    /\ res.err = "none"
    /\ richcmp_eq(res.et, a)

\* C6: for vectors of equal length with non-negative entries, a.divides(b)
\* is true exactly when a[i] <= b[i] at every position i.
C6_DividesIffLeq ==
    (pc = "divides" /\ a.length = b.length /\ NonNegative(a) /\ NonNegative(b)) =>
        /\ res.err = "none"
        /\ res.bv = (\A i \in Positions(a) : get_exp(a, i) <= get_exp(b, i))

C6_Witness ==
    /\ pc = "divides"
    /\ a.length = b.length
    /\ NonNegative(a)
    /\ NonNegative(b)
    /\ nonzero(a) > 0
    /\ nonzero(a) < nonzero(b)
    /\ res.bv

\* C7: for vectors of equal length, a.divide_by_gcd(b) has the value
\* a[i] - min(a[i], b[i]) at every position i, which is a.esub(a.emin(b)),
\* and no entry of it is negative (stated for the inputs on which these
\* values fit in the int range).
C7_DivideByGcdIsQuotient ==
    (/\ pc = "divide_by_gcd"
     /\ a.length = b.length
     /\ \A i \in Positions(a) : InRange(GcdQuotAt(i))) =>
        /\ ResultIs(GcdQuotAt)
        /\ NonNegative(res.et)

---------------------------------------------------------------------------
(* Properties of PolyDict *)

KeySet(D) == {D[j][1] : j \in 1..Len(D)}
\* the coefficients stored under the key k
CoefsAt(D, k) == {D[j][2] : j \in {n \in 1..Len(D) : D[n][1] = k}}
\* a dict holds every key once
IsDict(D) == \A i, j \in 1..Len(D) : D[i][1] = D[j][1] => i = j
NoZeroCoef(D) == \A j \in 1..Len(D) : ~RatIsZero(D[j][2])
\* the same key set and equal coefficients on every key
SameMapping(D, R) ==
    /\ KeySet(D) = KeySet(R)
    /\ \A k \in KeySet(D) : CoefsAt(D, k) = CoefsAt(R, k)

\* r2 is r1 with exactly its zero-coefficient keys removed
ZerosRemoved(r1, r2) ==
    /\ IsDict(r2)
    /\ NoZeroCoef(r2)
    /\ KeySet(r2) = {k \in KeySet(r1) : \E c \in CoefsAt(r1, k) : ~RatIsZero(c)}
    /\ \A k \in KeySet(r2) : CoefsAt(r2, k) = CoefsAt(r1, k)

C8_States ==
    /\ pdpc = "sub_self" =>
          /\ IsDict(r)
          /\ Len(r) = Len(f)
          /\ KeySet(r) = KeySet(f)
          /\ \A j \in 1..Len(r) : RatIsZero(r[j][2])
    /\ pdpc \in ArithOps => KeySet(f) \subseteq KeySet(r)
    /\ pdpc = "init_rz" => ZerosRemoved(f, r)

C8_Steps ==
    (pdpc # "remove_zeros" /\ pdpc' = "remove_zeros") => ZerosRemoved(r, r')

\* C8: f - f has exactly the key set of f with every coefficient zero, the
\* arithmetic never drops a key, and remove_zeros() (or remove_zero=True
\* at construction) removes exactly the zero-coefficient keys and leaves
\* every other term as it was.
C8_SubSelfKeepsZeros == [](C8_States) /\ [][C8_Steps]_vars

C8_Witness ==
    /\ pdpc = "remove_zeros"
    /\ Len(f) = 2
    /\ \A j \in 1..Len(f) : ~RatIsZero(f[j][2])
    /\ r = <<>>

\* C9: p == q is the equality of the raw mappings (same key set, equal
\* coefficients on every key), p != q is its negation, and p == q implies
\* hash(p) == hash(q).
C9_EqIsRawMapping ==
    /\ cmpres.op = "EQ" =>
          /\ cmpres.err = "none"
          /\ cmpres.bv = SameMapping(r, q)
          /\ cmpres.bv => PolyDict_hash(r) = PolyDict_hash(q)
    /\ cmpres.op = "NE" =>
          /\ cmpres.err = "none"
          /\ cmpres.bv = ~SameMapping(r, q)

\* a PolyDict with a stored zero compared with the otherwise identical one
\* that lacks the key
C9_Witness ==
    /\ cmpres.op = "EQ"
    /\ ~cmpres.bv
    /\ Len(r) = Len(q) + 1
    /\ Len(q) > 0
    /\ SameMapping(remove_zeros(r), q)

NoExponentAt(D, i, x) == \A k \in KeySet(D) : get_exp(k, i) # x

\* C10 as claimed: when no term of f has exponent -1 at position i,
\* f.derivative_i(i).integral_i(i) completes without error and equals f.
C10_DerivativeIntegral ==
    (pdpc = "integral" /\ pdj = pdi /\ NoExponentAt(f, pdi, -1)) =>
        /\ perr = "none"
        /\ DictEq(r, f)

\* C10 as amended: when no term of f has exponent 0 at position i (and
\* every exponent at i is above the least C int, so that exponent - 1 is
\* an int), f.derivative_i(i).integral_i(i) completes without error and
\* equals f.
C10_DerivativeIntegralNonConstant ==
    (/\ pdpc = "integral"
     /\ pdj = pdi
     /\ NoExponentAt(f, pdi, 0)
     /\ NoExponentAt(f, pdi, MinInt)) =>
        /\ perr = "none"
        /\ DictEq(r, f)
        /\ SameMapping(r, f)

C10_Witness ==
    /\ pdpc = "integral"
    /\ pdj = pdi
    /\ NoExponentAt(f, pdi, 0)
    /\ NoExponentAt(f, pdi, MinInt)
    /\ Len(f) = 2
    /\ \E k \in KeySet(f) : get_exp(k, pdi) = -1
    /\ \E k \in KeySet(f) : get_exp(k, pdi) = 1
    /\ perr = "none"
    /\ DictEq(r, f)

---------------------------------------------------------------------------
(* The Flag sessions.  In the first a Flag is constructed and subflag      *)
(* (once, or twice with the same arguments) or ftype is called on it.  In  *)
(* the second two Flags are constructed and compared, or the first is      *)
(* compared with one of its relabellings.                                  *)

\* the sequences of k distinct points of 0..n-1
InjSeqs(n, k) ==
    {sq \in [1..k -> 0..(n - 1)] : \A x, y \in 1..k : sq[x] = sq[y] => x = y}

RECURSIVE SeqOfSet(_)
SeqOfSet(S) ==
    IF S = {} THEN <<>>
    ELSE LET x == CHOOSE y \in S : TRUE IN <<x>> \o SeqOfSet(S \ {x})

\* the tuples a block of the theory can hold on n points
TuplesOn(theory, n) ==
    IF Signature(theory).edges.ordered
    THEN {<<i, j>> : i, j \in 0..(n - 1)} \ {<<i, i>> : i \in 0..(n - 1)}
    ELSE {e \in {<<i, j>> : i, j \in 0..(n - 1)} : e[1] < e[2]}

\* the type points of an input: none, one point, or both points of a
\* Flag on two points; on more than three points none or the point 0
TypeListsOn(n) ==
    IF n > 3 THEN {<<>>, <<0>>}
    ELSE {<<>>} \cup InjSeqs(n, 1) \cup (IF n = 2 THEN InjSeqs(n, 2) ELSE {})

\* the Flags on n points with at most three tuples (two on more than three
\* points)
FlagsOn(theory, n) ==
    {Flag(theory, n, ft, [edges |-> SeqOfSet(E)]) :
        ft \in TypeListsOn(n),
        E \in {D \in SUBSET TuplesOn(theory, n) :
                  Cardinality(D) <= IF n > 3 THEN 2 ELSE 3}}

Flags ==
    UNION {FlagsOn("Graph", n) : n \in 0..MaxPoints}
    \cup UNION {FlagsOn("DiGraph", n) : n \in 0..2}

SmallFlags == {x \in Flags : x.n <= 3}

\* the arguments of a subflag call on a Flag of n points
PointArgs(n) == {NotGiven} \cup {Given(P) : P \in UNION {InjSeqs(n, k) : k \in 0..n}}
TypeArgs(n) == {NotGiven} \cup {Given(T) : T \in {<<>>} \cup InjSeqs(n, 1)}

FlagInit ==
    /\ flagS \in Flags
    /\ flagT = NoFlag
    /\ fargs = NoArgs
    /\ fpc = "start"
    /\ fres = FReturn(NoFlag)
    /\ fres2 = FReturn(NoFlag)
    /\ PTIdle
    /\ GNIdle
    /\ ETIdle
    /\ PDIdle

Subflag ==
    /\ fpc = "start"
    /\ \E P \in PointArgs(flagS.n), T \in TypeArgs(flagS.n) :
          /\ fargs' = [points |-> P, ftype_points |-> T]
          /\ fres' = subflag(flagS, P, T)
    /\ fpc' = "subflag"
    /\ UNCHANGED <<flagS, flagT, fres2, ptVars, gnVars, etVars, pdVars>>

SubflagAgain ==
    /\ fpc = "subflag"
    /\ fres2' = subflag(flagS, fargs.points, fargs.ftype_points)
    /\ fpc' = "subflag_again"
    /\ UNCHANGED <<flagS, flagT, fargs, fres, ptVars, gnVars, etVars, pdVars>>

Ftype ==
    /\ fpc = "start"
    /\ fres' = FReturn(ftype(flagS))
    /\ fpc' = "ftype"
    /\ UNCHANGED <<flagS, flagT, fargs, fres2, ptVars, gnVars, etVars, pdVars>>

FlagNext ==
    \/ Subflag
    \/ SubflagAgain
    \/ Ftype

SpecFlag == FlagInit /\ [][FlagNext]_vars

FlagCmpInit ==
    /\ flagS \in Flags
    /\ flagT \in SmallFlags
    /\ fargs = NoArgs
    /\ fpc = "start"
    /\ fres = FReturn(NoFlag)
    /\ fres2 = FReturn(NoFlag)
    /\ PTIdle
    /\ GNIdle
    /\ ETIdle
    /\ PDIdle

FlagCmpOps == {"eq", "lt", "le", "strong_equal", "weak_equal", "normal_equal"}

\* self <op> other for two Flags
Flag_compare(self, other, op) ==
    CASE op = "eq" -> Flag_eq(self, other)
      [] op = "lt" -> Flag_lt(self, other)
      [] op = "le" -> Flag_le(self, other)
      [] op = "strong_equal" -> strong_equal(self, other)
      [] op = "weak_equal" -> weak_equal(self, other)
      [] op = "normal_equal" -> normal_equal(self, other)

\* flagS <op> flagT
Compare ==
    /\ fpc = "start"
    /\ \E op \in FlagCmpOps :
          /\ fpc' = op
          /\ fres' = FReturnBool(Flag_compare(flagS, flagT, op))
    /\ UNCHANGED <<flagS, flagT, fargs, fres2, ptVars, gnVars, etVars, pdVars>>

\* flagT < flagS and flagT <= flagS
CompareReversed ==
    /\ fpc = "start"
    /\ \E op \in {"lt", "le"} :
          /\ fpc' = op
          /\ fres' = FReturnBool(Flag_compare(flagT, flagS, op))
          /\ flagS' = flagT
          /\ flagT' = flagS
    /\ UNCHANGED <<fargs, fres2, ptVars, gnVars, etVars, pdVars>>

\* flagS == flagS.subflag(points=p) for a permutation p of the points; the
\* second structure takes no part and is the empty one
EqRelabelled ==
    /\ fpc = "start"
    /\ flagT = empty(flagS.theory)
    /\ \E p \in InjSeqs(flagS.n, flagS.n) :
          /\ fargs' = [points |-> Given(p), ftype_points |-> NotGiven]
          /\ fres2' = subflag(flagS, Given(p), NotGiven)
          /\ fres' = FReturnBool(Flag_eq(flagS, subflag(flagS, Given(p), NotGiven).flag))
    /\ fpc' = "eq_relabelled"
    /\ UNCHANGED <<flagS, flagT, ptVars, gnVars, etVars, pdVars>>

FlagCmpNext ==
    \/ Compare
    \/ CompareReversed
    \/ EqRelabelled

SpecFlagCmp == FlagCmpInit /\ [][FlagCmpNext]_vars

---------------------------------------------------------------------------
(* Properties of Flag *)

\* the position of the point x in the list P of distinct points
PositionIn(P, x) == CHOOSE j \in 0..(Len(P) - 1) : P[j + 1] = x

\* the point list of the induced structure: the points, then the type
\* points not among them
InducedPoints(P, T) == P \o SelectSeq(T, LAMBDA x : x \notin Range(P))

\* the tuples of the block that lie inside P, relabelled by position in P
InducedTuples(block, P) ==
    {[k \in 1..Len(u) |-> PositionIn(P, u[k])] :
        u \in {w \in Range(block) : Range(w) \subseteq Range(P)}}

\* the block holds exactly the tuples of the set U, each once (up to the
\* order inside a tuple when the relation is unordered)
BlockIs(theory, block, U) ==
    /\ Len(block) = Cardinality(Range(block))
    /\ IF Signature(theory).edges.ordered
       THEN Range(block) = U
       ELSE /\ {Range(u) : u \in Range(block)} = {Range(u) : u \in U}
            /\ Cardinality(Range(block)) = Cardinality({Range(u) : u \in U})

\* x is the structure s induces on the points P with the type points T
IsInduced(x, s, P, T) ==
    /\ x.theory = s.theory
    /\ x.n = Len(P)
    /\ x.ftype_points = [j \in 1..Len(T) |-> PositionIn(P, T[j])]
    /\ DOMAIN x.blocks = DOMAIN s.blocks
    /\ \A xx \in DOMAIN s.blocks :
          /\ BlockIs(s.theory, x.blocks[xx], InducedTuples(s.blocks[xx], P))
          /\ \A u \in Range(x.blocks[xx]) : Range(u) \subseteq 0..(Len(P) - 1)

\* the type points a subflag call works with
EffectiveType == IF fargs.ftype_points.given THEN fargs.ftype_points.v
                 ELSE flagS.ftype_points

\* C11: s.subflag(points, type_points) on a list of distinct points is the
\* Flag on P = points followed by the type points not in it, its type
\* points the positions of type_points in P, its blocks the tuples of s
\* inside P relabelled by position, so every point of a block is below |P|.
C11_SubflagIsInduced ==
    (fpc = "subflag" /\ fargs.points.given) =>
        /\ fres.err = "none"
        /\ IsInduced(fres.flag, flagS,
                     InducedPoints(fargs.points.v, EffectiveType), EffectiveType)

\* C12: subflag with the points omitted or equal to 0..n-1, and the
\* original type, gives a structure strong_equal to s; two calls of
\* s.subflag(subp) give structures that are == to each other.
C12_SubflagFullAndRepeated ==
    /\ (/\ fpc = "subflag"
        /\ EffectiveType = flagS.ftype_points
        /\ (~fargs.points.given \/ fargs.points.v = TupleRange(flagS.n))) =>
            /\ fres.err = "none"
            /\ strong_equal(fres.flag, flagS)
    /\ (fpc = "subflag_again" /\ fargs.points.given) =>
            /\ fres.err = "none"
            /\ fres2.err = "none"
            /\ Flag_eq(fres.flag, fres2.flag)

\* C13: ftype() is the structure induced on the type points in their
\* order: a Flag on |type_points| points that is a type, and for a Flag
\* that is a type it is equal to self.
C13_FtypeIsInducedType ==
    fpc = "ftype" =>
        /\ fres.err = "none"
        /\ fres.flag.n = Len(flagS.ftype_points)
        /\ is_ftype(fres.flag)
        /\ IsInduced(fres.flag, flagS, flagS.ftype_points, flagS.ftype_points)
        /\ is_ftype(flagS) => Flag_eq(fres.flag, flagS)

\* the bijections of the points of a onto the points of b
PointMaps(x, y) ==
    {m \in [0..(x.n - 1) -> 0..(y.n - 1)] :
        \A i, j \in 0..(x.n - 1) : m[i] = m[j] => i = j}

\* the tuples of a block, a tuple of an unordered relation read as a set
TupleSet(theory, block) ==
    IF Signature(theory).edges.ordered
    THEN {<<"tuple", u>> : u \in Range(block)}
    ELSE {<<"set", Range(u)>> : u \in Range(block)}

\* the block carried along the map m
MappedBlock(block, m) ==
    [j \in 1..Len(block) |-> [k \in 1..Len(block[j]) |-> m[block[j][k]]]]

\* x and y are isomorphic by a map that carries the type points of x to
\* those of y in their order
Isomorphic(x, y) ==
    /\ x.theory = y.theory
    /\ x.n = y.n
    /\ Len(x.ftype_points) = Len(y.ftype_points)
    /\ \E m \in PointMaps(x, y) :
          /\ \A j \in 1..Len(x.ftype_points) :
                m[x.ftype_points[j]] = y.ftype_points[j]
          /\ \A xx \in DOMAIN x.blocks :
                /\ TupleSet(x.theory, MappedBlock(x.blocks[xx], m))
                      = TupleSet(y.theory, y.blocks[xx])
                /\ Len(x.blocks[xx]) = Len(y.blocks[xx])

\* C14: == is isomorphism respecting the types: s == s.subflag(points=p)
\* for every permutation p of the points of s, two Flags on the same
\* number of points are == exactly when they are isomorphic, and two Flags
\* of different theories are never ==.
C14_EqIsIsomorphism ==
    /\ fpc = "eq_relabelled" => (fres2.err = "none" /\ fres.bv)
    /\ (fpc = "eq" /\ flagS.theory # flagT.theory) => ~fres.bv
    /\ (fpc = "eq" /\ flagS.n = flagT.n) => (fres.bv = Isomorphic(flagS, flagT))

\* a relabelling that moved the type point and changed the blocks
C14_Witness ==
    /\ fpc = "eq_relabelled"
    /\ fres.bv
    /\ Len(flagS.ftype_points) = 1
    /\ fres2.flag.ftype_points # flagS.ftype_points
    /\ fres2.flag.blocks # flagS.blocks
    /\ Len(flagS.blocks.edges) = 2

\* the structure s induces on the points P with the type points T
InducedFlag(s, P, T) ==
    Flag(s.theory, Len(P), [j \in 1..Len(T) |-> PositionIn(P, T[j])],
         [xx \in DOMAIN s.blocks |-> SeqOfSet(InducedTuples(s.blocks[xx], P))])

\* the type of s
TypeOf(s) == InducedFlag(s, s.ftype_points, s.ftype_points)

\* x is a proper induced sub-structure of y that respects the type
ProperlyInside(x, y) ==
    /\ x.n < y.n
    /\ Isomorphic(TypeOf(x), TypeOf(y))
    /\ \E S \in Combinations(not_ftype_points(y), x.n - Len(x.ftype_points)) :
          Isomorphic(InducedFlag(y, InducedPoints(S, y.ftype_points),
                                 y.ftype_points), x)

\* C15: for Flags a, b of one theory, a < b exactly when a has fewer
\* points, the types are equal and some set S of |a| - |type| non-type
\* points of b, with b's type points, induces a structure == a; a <= b is
\* (a == b or a < b).
C15_LtIsProperInducedInclusion ==
    /\ (fpc = "lt" /\ flagS.theory = flagT.theory) =>
            (fres.bv = ProperlyInside(flagS, flagT))
    /\ (fpc = "le" /\ flagS.theory = flagT.theory) =>
            (fres.bv = (Flag_eq(flagS, flagT) \/ ProperlyInside(flagS, flagT)))

C29_DifferentSizesDiffer ==
    (fpc \in {"eq", "normal_equal", "weak_equal"} /\ flagS.n # flagT.n) => ~fres.bv

---------------------------------------------------------------------------
(* Patterns (class Pattern of flag.pyx).  A Pattern is the record of its   *)
(* theory, _n, _ftype_points and _blocks, like a Flag.  A call gives back  *)
(* the set of its possible outcomes: the attributes and helper arguments   *)
(* of Pattern are declared list where tuples are passed (and the other way *)
(* round), _unique is not declared, and is_compatible is a bint function   *)
(* without an except clause, so the build decides whether such a step      *)
(* raises and whether an exception leaves is_compatible or is dropped.     *)

\* the outcomes of a set that raise
raised(outs) == {o \in outs : o.err # "none"}

\* xx + "_o"
WithSuffix(xx) == IF xx = "edges" THEN "edges_o" ELSE xx

\* Pattern.__init__: _ftype_points (a list) is assigned a tuple, the blocks
\* are standardized with pattern=False, then _unique is assigned
Pattern(theory, n, ftype_points, params) ==
    {FRaise("TypeError")}
    \cup (IF standardize_fails(params, Signature(theory), FALSE)
          THEN {FRaise("KeyError")}
          ELSE {FRaise("AttributeError"),
                FReturn([theory |-> theory, n |-> n, ftype_points |-> ftype_points,
                         blocks |-> _standardize_blocks(params, Signature(theory),
                                                        FALSE)])})

\* Pattern.subpattern; _subblock_helper (tuple points) is handed a list
subpattern(self, points, ftype_points) ==
    LET ft == IF ftype_points.given THEN ftype_points.v ELSE self.ftype_points
        pts == ft \o SelectSeq(IF points.given THEN points.v ELSE TupleRange(self.n),
                               LAMBDA ii : ii \notin Range(ft))
    IN  IF Range(ft) # Range(self.ftype_points) THEN {FRaise("ValueError")}
        ELSE {FRaise("TypeError")}
             \cup Pattern(self.theory, Len(pts),
                          [j \in 1..Len(ft) |-> Index(pts, ft[j])],
                          [xx \in DOMAIN self.blocks |->
                              _subblock_helper(pts, self.blocks[xx])])

\* Pattern.ftype on a Pattern whose _ftype is not cached yet: a Flag on
\* len(_ftype_points) points with the type points under their old labels
Pattern_ftype(self) ==
    LET blocks == [xx \in DOMAIN self.blocks |->
                      _subblock_helper(self.ftype_points, self.blocks[xx])]
    IN  {FRaise("TypeError")}
        \cup (IF standardize_fails(blocks, Signature(self.theory), FALSE)
              THEN {FRaise("KeyError")}
              ELSE {FReturn(Flag(self.theory, Len(self.ftype_points),
                                 self.ftype_points, blocks))})

_block_consistency(block, missing) ==
    \A j \in 1..Len(block) : block[j] \notin Range(missing)

_block_refinement(block0, missing0, block1, missing1) ==
    /\ \A j \in 1..Len(block0) : block0[j] \in Range(block1)
    /\ \A j \in 1..Len(block1) : block1[j] \notin Range(missing0)
    /\ \A j \in 1..Len(missing0) : missing0[j] \in Range(missing1)

\* the sequence points without its entry j
WithoutEntry(points, j) ==
    [k \in 1..(Len(points) - 1) |-> IF k < j THEN points[k] ELSE points[k + 1]]

\* tuple(itertools.permutations(points, k)), in the order of itertools
RECURSIVE permutations_from(_, _, _)
permutations(points, k) ==
    IF k = 0 THEN << <<>> >>
    ELSE IF k > Len(points) THEN <<>>
    ELSE permutations_from(points, k, 1)

\* the permutations whose first entry is points[j] or a later one
permutations_from(points, k, j) ==
    IF j > Len(points) THEN <<>>
    ELSE LET rest == permutations(WithoutEntry(points, j), k - 1)
         IN  [m \in 1..Len(rest) |-> <<points[j]>> \o rest[m]]
             \o permutations_from(points, k, j + 1)

\* the loop of is_compatible over perms, from the first perm left
RECURSIVE is_compatible_loop(_, _, _)
is_compatible_loop(self, opattern, perms) ==
    IF Len(perms) = 0 THEN {FReturnBool(FALSE)}
    ELSE LET opermed == subpattern(opattern, Given(Head(perms)), NotGiven)
             sb == self.blocks
         IN  raised(opermed)
             \cup UNION {
                LET ob == o.flag.blocks
                IN  IF \E xx \in DOMAIN Signature(self.theory) :
                           \/ xx \notin DOMAIN sb
                           \/ WithSuffix(xx) \notin DOMAIN sb
                           \/ xx \notin DOMAIN ob
                           \/ WithSuffix(xx) \notin DOMAIN ob
                    THEN {FRaise("KeyError")}
                    ELSE IF \A xx \in DOMAIN Signature(self.theory) :
                               _block_refinement(sb[xx], sb[WithSuffix(xx)],
                                                 ob[xx], ob[WithSuffix(xx)])
                    THEN {FReturnBool(TRUE)}
                    ELSE is_compatible_loop(self, opattern, Tail(perms))
                : o \in opermed \ raised(opermed)}

\* is_compatible up to its return or the exception it meets
is_compatible_body(self, other) ==
    IF self.n > other.n THEN {FReturnBool(FALSE)}
    ELSE IF self.theory # other.theory THEN {FReturnBool(FALSE)}
    ELSE LET sft == Pattern_ftype(self)
             opatterns == Pattern(self.theory, other.n, other.ftype_points,
                                  other.blocks)
             perms == permutations(not_ftype_points(other),
                                   Len(not_ftype_points(self)))
         IN  raised(sft)
             \cup UNION {
                IF ~Flag_eq(t.flag, ftype(other)) THEN {FReturnBool(FALSE)}
                ELSE raised(opatterns)
                     \cup UNION {is_compatible_loop(self, o.flag, perms)
                                    : o \in opatterns \ raised(opatterns)}
                : t \in sft \ raised(sft)}

\* Pattern.is_compatible: an exception leaves the call, or is dropped and
\* the call returns False
is_compatible(self, other) ==
    LET outs == is_compatible_body(self, other)
    IN  outs \cup (IF raised(outs) # {} THEN {FReturnBool(FALSE)} ELSE {})

---------------------------------------------------------------------------
(* The generator (possible_mergings of flag.pyx).  The signature handed to *)
(* the generator is its own argument; the structures keep the signature of *)
(* their theory.  _get_max_arity is a cdef int function without an except  *)
(* clause: the build decides whether its ValueError leaves the function or *)
(* is dropped (the function then returns 0), which implicit_noexcept       *)
(* stands for.                                                             *)

\* tuple(itertools.chain.from_iterable(seqs))
RECURSIVE Concat(_)
Concat(seqs) ==
    IF Len(seqs) = 0 THEN <<>> ELSE Head(seqs) \o Concat(Tail(seqs))

\* tuple(itertools.combinations(points, k)), in the order of itertools
RECURSIVE combinations(_, _)
combinations(points, k) ==
    IF k = 0 THEN << <<>> >>
    ELSE IF k < 0 \/ Len(points) < k THEN <<>>
    ELSE LET rest == combinations(Tail(points), k - 1)
         IN  [m \in 1..Len(rest) |-> <<Head(points)>> \o rest[m]]
             \o combinations(Tail(points), k)

\* tuple(range(lo, hi))
RangeFrom(lo, hi) == [j \in 1..(hi - lo) |-> lo + j - 1]

_single_relation(n, relation) ==
    IF n < relation.arity THEN << <<>> >>
    ELSE LET base == RangeFrom(n - relation.arity, n)
             ord_base == IF relation.ordered
                         THEN permutations(base, Len(base))
                         ELSE <<base>>
         IN  Concat([rr \in 1..(Len(ord_base) + 1) |-> combinations(ord_base, rr - 1)])

\* what _get_max_arity gives back: a number or a raised exception
IntReturn(v) == [err |-> "none", v |-> v]
IntRaise(e) == [err |-> e, v |-> 0]

_get_max_arity(signature, implicit_noexcept) ==
    LET curr_arity == signature.edges.arity
    IN  IF curr_arity < 1 \/ curr_arity > 3
        THEN IF implicit_noexcept THEN IntReturn(0) ELSE IntRaise("ValueError")
        ELSE IntReturn(IF curr_arity > 0 THEN curr_arity ELSE 0)

\* _get_extensions, given the value its call of _get_max_arity returned
_get_extensions(n, signature, max_arity) ==
    LET terms == IF signature.edges.arity # max_arity
                 THEN << <<>> >>
                 ELSE _single_relation(n, signature.edges)
    IN  [j \in 1..Len(terms) |-> [edges |-> terms[j]]]

\* _excluded_compatible that looks at the base points only
_excluded_compatible_base_only(n, flag, excluded, max_signature) ==
    LET base_points == RangeFrom(n - max_signature, n)
    IN  \A j \in 1..Len(excluded) :
            \/ excluded[j].n < max_signature
            \/ ~Flag_eq(subflag(flag, Given(base_points), NotGiven).flag, excluded[j])

\* _excluded_compatible for excluded structures that are Flags
_excluded_compatible(n, flag, excluded, max_signature) ==
    LET base_points == RangeFrom(n - max_signature, n)
    IN  \A j \in 1..Len(excluded) :
            LET fexclii == excluded[j]
                sii == fexclii.n
                extras == combinations(TupleRange(n - max_signature),
                                       sii - max_signature)
            IN  sii < max_signature
                \/ \A m \in 1..Len(extras) :
                      ~Flag_eq(subflag(flag, Given(base_points \o extras[m]),
                                       NotGiven).flag,
                               fexclii)

_merge_blocks_0(block0, block1) ==
    [key \in DOMAIN block0 |-> block0[key] \o block1[key]]

\* _merge_blocks_1 that leaves the remapped point where it was
_merge_blocks_1_unmapped(block0, block1, from0, to0) ==
    [key \in DOMAIN block0 |->
        block0[key] \o SelectSeq(block1[key], LAMBDA term : from0 \in Range(term))]

_merge_blocks_1(block0, block1, from0, to0) ==
    [key \in DOMAIN block0 |->
        LET terms == SelectSeq(block1[key], LAMBDA term : from0 \in Range(term))
        IN  block0[key]
            \o [j \in 1..Len(terms) |->
                   [k \in 1..Len(terms[j]) |->
                       IF terms[j][k] # from0 THEN terms[j][k] ELSE to0]]]

_merge_blocks_2(block0, block1, from0, to0, from1, to1) ==
    [key \in DOMAIN block0 |->
        LET terms == SelectSeq(block1[key],
                               LAMBDA term : from0 \in Range(term)
                                             /\ from1 \in Range(term))
        IN  block0[key]
            \o [j \in 1..Len(terms) |->
                   [k \in 1..Len(terms[j]) |->
                       IF terms[j][k] # from0
                       THEN (IF terms[j][k] # from1 THEN terms[j][k] ELSE to1)
                       ELSE to0]]]

\* Flag._relation_pattern: per group the sorted sizes of its blocks
_relation_pattern(self) == <<sorted_ints(<<Len(self.blocks.edges)>>)>>

\* the loop of nonequal_permutations over perms, from the first perm left
RECURSIVE nonequal_permutations_loop(_, _, _)
nonequal_permutations_loop(self, perms, ret) ==
    IF Len(perms) = 0 THEN ret
    ELSE LET newflag == subflag(self, Given(Head(perms)), NotGiven).flag
             can_add == \A j \in 1..Len(ret) : ~strong_equal(ret[j], newflag)
         IN  nonequal_permutations_loop(self, Tail(perms),
                                        IF can_add THEN Append(ret, newflag) ELSE ret)

\* a nonequal_permutations that keeps one relabelling of each class of ==
RECURSIVE nonequal_permutations_by_eq_loop(_, _, _)
nonequal_permutations_by_eq_loop(self, perms, ret) ==
    IF Len(perms) = 0 THEN ret
    ELSE LET newflag == subflag(self, Given(Head(perms)), NotGiven).flag
             can_add == \A j \in 1..Len(ret) : ~Flag_eq(ret[j], newflag)
         IN  nonequal_permutations_by_eq_loop(self, Tail(perms),
                                              IF can_add THEN Append(ret, newflag) ELSE ret)

nonequal_permutations_by_eq(self) ==
    nonequal_permutations_by_eq_loop(self, permutations(TupleRange(self.n), self.n), <<>>)

nonequal_permutations(self) ==
    nonequal_permutations_loop(self, permutations(TupleRange(self.n), self.n), <<>>)

\* the final_flag of every pass of the innermost loop, in the order of the
\* passes, when max_arity is 1
final_flags_1(n, smaller_structures, extensions) ==
    Concat([ii \in 1..Len(smaller_structures) |->
        LET F == smaller_structures[ii]
        IN  [ee \in 1..Len(extensions) |->
                Flag(F.theory, n, <<>>, _merge_blocks_0(F.blocks, extensions[ee]))]])

\* the same when max_arity is 2
final_flags_2(n, smaller_structures, extensions) ==
    Concat([ii \in 1..Len(smaller_structures) |->
        LET F == smaller_structures[ii]
            F_perms == nonequal_permutations(F)
        IN  Concat([gg \in 1..(Len(smaller_structures) - ii + 1) |->
                LET G == smaller_structures[ii + gg - 1]
                    G_subf == subflag(G, Given(TupleRange(n - 2)), NotGiven).flag
                IN  Concat([pp \in 1..Len(F_perms) |->
                        LET F_permed == F_perms[pp]
                            FG_overlap == _merge_blocks_1(F_permed.blocks, G.blocks,
                                                          n - 2, n - 1)
                        IN  IF strong_equal(subflag(F_permed, Given(TupleRange(n - 2)),
                                                    NotGiven).flag, G_subf)
                            THEN [ee \in 1..Len(extensions) |->
                                     Flag(F.theory, n, <<>>,
                                          _merge_blocks_0(FG_overlap, extensions[ee]))]
                            ELSE <<>>])])])

\* the same when max_arity is 3
final_flags_3(n, smaller_structures, extensions) ==
    LET sslen == Len(smaller_structures)
        all_perms == [ii \in 1..sslen |-> nonequal_permutations(smaller_structures[ii])]
        minustwo == TupleRange(n - 2) \o <<n - 1>>
    IN  Concat([ii \in 1..sslen |->
            LET F == smaller_structures[ii]
                F_subf == subflag(F, Given(TupleRange(n - 2)), NotGiven).flag
            IN  Concat([jg \in 1..(sslen - ii + 1) |->
                  LET jj == ii + jg - 1 IN
                    Concat([pg \in 1..Len(all_perms[jj]) |->
                        LET G_permed == all_perms[jj][pg]
                            G_subf == subflag(G_permed, Given(TupleRange(n - 2)),
                                              NotGiven).flag
                            FG_overlap == _merge_blocks_1(F.blocks, G_permed.blocks,
                                                          n - 2, n - 1)
                        IN  IF ~strong_equal(G_subf, F_subf) THEN <<>>
                            ELSE Concat([kg \in 1..(sslen - jj + 1) |->
                                  LET kk == jj + kg - 1 IN
                                    Concat([ph \in 1..Len(all_perms[kk]) |->
                                        LET H_permed == all_perms[kk][ph]
                                            FGH_overlap ==
                                                _merge_blocks_2(FG_overlap, H_permed.blocks,
                                                                n - 3, n - 2, n - 2, n - 1)
                                        IN  IF /\ strong_equal(G_subf,
                                                      subflag(H_permed, Given(minustwo),
                                                              NotGiven).flag)
                                               /\ strong_equal(
                                                      subflag(H_permed,
                                                              Given(TupleRange(n - 2)),
                                                              NotGiven).flag,
                                                      subflag(F, Given(minustwo),
                                                              NotGiven).flag)
                                            THEN [ee \in 1..Len(extensions) |->
                                                     Flag(F.theory, n, <<>>,
                                                          _merge_blocks_0(FGH_overlap,
                                                                          extensions[ee]))]
                                            ELSE <<>>])])])])])

\* a ret[patt].append(final_flag) without the test `final_flag not in ret[patt]`
ret_add_unchecked(ret, final_flag) ==
    LET key == _relation_pattern(final_flag)
    IN  IF \A j \in 1..Len(ret) : ret[j][1] # key
        THEN Append(ret, <<key, <<final_flag>>>>)
        ELSE [j \in 1..Len(ret) |->
                IF ret[j][1] = key
                THEN <<key, Append(ret[j][2], final_flag)>>
                ELSE ret[j]]

\* ret after `ret[patt] = [final_flag]` or `ret[patt].append(final_flag)`;
\* ret is the sequence of its (key, list) pairs in the order of insertion
ret_add(ret, final_flag) ==
    LET key == _relation_pattern(final_flag)
    IN  IF \A j \in 1..Len(ret) : ret[j][1] # key
        THEN Append(ret, <<key, <<final_flag>>>>)
        ELSE [j \in 1..Len(ret) |->
                IF ret[j][1] = key
                   /\ \A m \in 1..Len(ret[j][2]) : ~Flag_eq(final_flag, ret[j][2][m])
                THEN <<key, Append(ret[j][2], final_flag)>>
                ELSE ret[j]]

\* the passes of the innermost loop over the final flags left
RECURSIVE possible_mergings_loop(_, _, _, _, _)
possible_mergings_loop(n, final_flags, excluded, max_arity, ret) ==
    IF Len(final_flags) = 0 THEN ret
    ELSE possible_mergings_loop(n, Tail(final_flags), excluded, max_arity,
            IF _excluded_compatible(n, Head(final_flags), excluded, max_arity)
            THEN ret_add(ret, Head(final_flags))
            ELSE ret)

\* what possible_mergings gives back: a tuple of Flags or a raised exception
GenReturn(flags) == [err |-> "none", flags |-> flags]
GenRaise(e) == [err |-> e, flags |-> <<>>]

possible_mergings(n, smaller_structures, signature, excluded, implicit_noexcept) ==
    LET got == _get_max_arity(signature, implicit_noexcept)
        max_arity == got.v
        extensions == _get_extensions(n, signature, max_arity)
        final_flags ==
            CASE max_arity = 1 -> final_flags_1(n, smaller_structures, extensions)
              [] max_arity = 2 -> final_flags_2(n, smaller_structures, extensions)
              [] max_arity = 3 -> final_flags_3(n, smaller_structures, extensions)
              [] OTHER -> <<>>
        ret == possible_mergings_loop(n, final_flags, excluded, max_arity, <<>>)
    IN  IF got.err # "none" THEN GenRaise(got.err)
        ELSE GenReturn(Concat([j \in 1..Len(ret) |-> ret[j][2]]))

---------------------------------------------------------------------------
(* The Pattern session: a structure is given, a Pattern is constructed,    *)
(* and is_compatible, ftype or subpattern is called on the Pattern.        *)

\* the keyword arguments of a Pattern: the block of each relation, with or
\* without its companion block
PatternParams(theory, n) ==
    {[edges |-> SeqOfSet(E)] : E \in SUBSET TuplesOn(theory, n)}

PatternParamsWithCompanion(theory, n) ==
    {[edges |-> SeqOfSet(E), edges_o |-> SeqOfSet(O)] :
        E \in SUBSET TuplesOn(theory, n), O \in SUBSET TuplesOn(theory, n)}

PatternInit ==
    /\ flagT \in SmallFlags
    /\ patt = NoFlag
    /\ ppc = "start"
    /\ pres = FReturn(NoFlag)
    /\ flagS = NoFlag
    /\ fargs = NoArgs
    /\ fpc = "idle"
    /\ fres = FReturn(NoFlag)
    /\ fres2 = FReturn(NoFlag)
    /\ GNIdle
    /\ ETIdle
    /\ PDIdle

\* the outcome out of Pattern(theory, n, ftype, **params)
Constructed(out) ==
    /\ pres' = out
    /\ patt' = out.flag
    /\ ppc' = IF out.err = "none" THEN "constructed" ELSE "failed"
    /\ UNCHANGED <<fsVars, gnVars, etVars, pdVars>>

Construct ==
    /\ ppc = "start"
    /\ \E theory \in Theories, n \in 0..2 :
          \E ftype_points \in TypeListsOn(n), params \in PatternParams(theory, n) :
             \E out \in Pattern(theory, n, ftype_points, params) : Constructed(out)

ConstructWithCompanion ==
    /\ ppc = "start"
    /\ \E theory \in Theories, n \in 0..2 :
          \E ftype_points \in TypeListsOn(n),
             params \in PatternParamsWithCompanion(theory, n) :
             \E out \in Pattern(theory, n, ftype_points, params) : Constructed(out)

\* patt.is_compatible(flagT)
IsCompatible ==
    /\ ppc = "constructed"
    /\ pres' \in is_compatible(patt, flagT)
    /\ ppc' = "is_compatible"
    /\ UNCHANGED <<patt, fsVars, gnVars, etVars, pdVars>>

PatternFtype ==
    /\ ppc = "constructed"
    /\ pres' \in Pattern_ftype(patt)
    /\ ppc' = "ftype"
    /\ UNCHANGED <<patt, fsVars, gnVars, etVars, pdVars>>

Subpattern ==
    /\ ppc = "constructed"
    /\ \E P \in PointArgs(patt.n) : pres' \in subpattern(patt, P, NotGiven)
    /\ ppc' = "subpattern"
    /\ UNCHANGED <<patt, fsVars, gnVars, etVars, pdVars>>

PatternNext ==
    \/ Construct
    \/ ConstructWithCompanion
    \/ IsCompatible
    \/ PatternFtype
    \/ Subpattern

SpecPattern == PatternInit /\ [][PatternNext]_vars

---------------------------------------------------------------------------
(* The generator session: the arguments of a call are given, then          *)
(* possible_mergings is called with them, or nonequal_permutations is      *)
(* called on the first of the smaller structures.                          *)

\* the structures of the theory on m points that have no type
UntypedFlagsOn(theory, m) == {x \in FlagsOn(theory, m) : Len(x.ftype_points) = 0}

\* the sizes n of the calls: up to 3 points for graphs, 2 for digraphs
GenSizes(theory) == IF theory = "Graph" THEN 1..3 ELSE 1..2

\* the tuples of at most two distinct structures on n - 1 points
SmallerStructures(theory, n) ==
    {sq \in UNION {[1..k -> UntypedFlagsOn(theory, n - 1)] : k \in 0..2} :
        \A i, j \in 1..Len(sq) : sq[i] = sq[j] => i = j}

\* the signature of the theory with the arity replaced
GenSignatures(theory) ==
    {[edges |-> [arity |-> k, ordered |-> Signature(theory).edges.ordered,
                 group |-> 0]] : k \in 0..4}

\* no excluded structure, or one
ExcludedTuples(theory) ==
    {<<>>} \cup {<<x>> : x \in UNION {UntypedFlagsOn(theory, m) : m \in GenSizes(theory)}}

GenStart == [pc |-> "start", implicit_noexcept |-> FALSE, out |-> GenReturn(<<>>)]

GenInit ==
    /\ \E theory \in Theories :
          \E n \in GenSizes(theory) :
             gin \in [theory : {theory}, n : {n},
                      smaller_structures : SmallerStructures(theory, n),
                      signature : GenSignatures(theory),
                      excluded : ExcludedTuples(theory)]
    /\ gst = GenStart
    /\ FSIdle
    /\ PTIdle
    /\ ETIdle
    /\ PDIdle

PossibleMergings ==
    /\ gst.pc = "start"
    /\ \E implicit_noexcept \in BOOLEAN :
          gst' = [pc |-> "possible_mergings",
                  implicit_noexcept |-> implicit_noexcept,
                  out |-> possible_mergings(gin.n, gin.smaller_structures,
                                            gin.signature, gin.excluded,
                                            implicit_noexcept)]
    /\ UNCHANGED <<gin, fsVars, ptVars, etVars, pdVars>>

NonequalPermutations ==
    /\ gst.pc = "start"
    /\ Len(gin.smaller_structures) > 0
    /\ gst' = [pc |-> "nonequal_permutations", implicit_noexcept |-> FALSE,
               out |-> GenReturn(nonequal_permutations(gin.smaller_structures[1]))]
    /\ UNCHANGED <<gin, fsVars, ptVars, etVars, pdVars>>

GenNext ==
    \/ PossibleMergings
    \/ NonequalPermutations

SpecGen == GenInit /\ [][GenNext]_vars

---------------------------------------------------------------------------
(* Properties of Pattern *)

\* the companion block of the pattern's relation, empty when it has none
CompanionBlock(p) ==
    IF "edges_o" \in DOMAIN p.blocks THEN p.blocks["edges_o"] ELSE <<>>

\* an injective placement of the pattern's points into the structure's,
\* type points onto type points in their order, that satisfies
\* _block_refinement
HasPlacement(p, x) ==
    \E S \in {sq \in InjSeqs(x.n, p.n - Len(p.ftype_points)) :
                 Range(sq) \subseteq Range(not_ftype_points(x))} :
        LET P == x.ftype_points \o S
            Q == p.ftype_points \o not_ftype_points(p)
            placed == InducedFlag(x, P, x.ftype_points)
            own == InducedFlag(p, Q, p.ftype_points)
        IN  _block_refinement(own.blocks.edges,
                              sorted_tuples(SeqOfSet(InducedTuples(CompanionBlock(p), Q))),
                              placed.blocks.edges, <<>>)

ShouldBeCompatible(p, x) ==
    /\ p.n <= x.n
    /\ p.theory = x.theory
    /\ Isomorphic(TypeOf(p), TypeOf(x))
    /\ HasPlacement(p, x)

\* C17: Pattern.is_compatible(other) is True exactly when an injective
\* placement of the pattern into other satisfies _block_refinement, and
\* False when the pattern is larger or the theories or the types differ; a
\* pattern without constraints is compatible with every structure of its
\* theory that has at least its size.
C17_IsCompatibleIsPlacement ==
    ppc = "is_compatible" =>
        /\ pres.err = "none"
        /\ pres.bv = ShouldBeCompatible(patt, flagT)
        /\ (/\ Len(patt.blocks.edges) = 0
            /\ Len(patt.ftype_points) = 0
            /\ Len(flagT.ftype_points) = 0
            /\ patt.theory = flagT.theory
            /\ patt.n <= flagT.n) => pres.bv

---------------------------------------------------------------------------
(* Properties of possible_mergings *)

\* the call of the claims: n = 3, one unordered binary relation, the two
\* structures on 2 points
GraphCallOnThree ==
    /\ gst.pc = "possible_mergings"
    /\ gin.theory = "Graph"
    /\ gin.n = 3
    /\ gin.signature = Signature("Graph")
    /\ Range(gin.smaller_structures) = UntypedFlagsOn("Graph", 2)

\* the structures of the result isomorphic to x
Representatives(x) ==
    {j \in 1..Len(gst.out.flags) : Isomorphic(gst.out.flags[j], x)}

TriangleOnThree == Flag("Graph", 3, <<>>, [edges |-> <<<<0, 1>>, <<0, 2>>, <<1, 2>>>>])

\* C18: with n = 3, one unordered binary relation, the two structures on 2
\* points and nothing excluded, possible_mergings returns exactly one
\* representative of each isomorphism class of structures on 3 points:
\* 4 structures.
C18_AllClassesOnThreePoints ==
    (GraphCallOnThree /\ gin.excluded = <<>>) =>
        /\ gst.out.err = "none"
        /\ Len(gst.out.flags) = 4
        /\ \A j \in 1..Len(gst.out.flags) :
              gst.out.flags[j].n = 3 /\ Len(gst.out.flags[j].ftype_points) = 0
        /\ \A x \in UntypedFlagsOn("Graph", 3) : Cardinality(Representatives(x)) = 1

C18_Witness ==
    /\ GraphCallOnThree
    /\ gin.excluded = <<>>
    /\ gin.smaller_structures[1].blocks.edges = <<>>
    /\ Len(gst.out.flags) = 4
    /\ \E j \in 1..4 : gst.out.flags[j] = TriangleOnThree

\* C19: in the same call with the triangle excluded, the result holds
\* exactly one representative of each of the three other classes and no
\* structure == the triangle.
C19_TriangleExcluded ==
    (GraphCallOnThree /\ gin.excluded = <<TriangleOnThree>>) =>
        /\ gst.out.err = "none"
        /\ Len(gst.out.flags) = 3
        /\ \A j \in 1..Len(gst.out.flags) : ~Flag_eq(gst.out.flags[j], TriangleOnThree)
        /\ \A x \in UntypedFlagsOn("Graph", 3) :
              Cardinality(Representatives(x)) = IF Isomorphic(x, TriangleOnThree) THEN 0 ELSE 1

C19_Witness ==
    /\ GraphCallOnThree
    /\ gin.excluded = <<TriangleOnThree>>
    /\ Len(gst.out.flags) = 3
    /\ \E j \in 1..3 : Len(gst.out.flags[j].blocks.edges) = 2

\* C20: possible_mergings raises ValueError whenever a relation of the
\* signature has an arity below 1 or above 3, whatever smaller_structures
\* and excluded hold.
C20_BadArityRaises ==
    (/\ gst.pc = "possible_mergings"
     /\ (gin.signature.edges.arity < 1 \/ gin.signature.edges.arity > 3)) =>
        gst.out.err = "ValueError"

\* C26: for every arity from 1 to 3, whatever smaller_structures and
\* excluded hold, no two structures that possible_mergings returns are ==,
\* and every one of them has n points and the empty type
C26_MergingsDistinct ==
    (/\ gst.pc = "possible_mergings"
     /\ gin.signature.edges.arity \in 1..3
     /\ gst.out.err = "none") =>
        /\ \A i, j \in 1..Len(gst.out.flags) :
              i # j => ~Flag_eq(gst.out.flags[i], gst.out.flags[j])
        /\ \A j \in 1..Len(gst.out.flags) :
              /\ gst.out.flags[j].n = gin.n
              /\ gst.out.flags[j].ftype_points = <<>>

\* the directed call on 2 points: the three classes (no arc, one arc, both
\* arcs) are returned, each once
C26_Witness ==
    /\ gst.pc = "possible_mergings"
    /\ gin.theory = "DiGraph"
    /\ gin.n = 2
    /\ gin.signature = Signature("DiGraph")
    /\ gin.excluded = <<>>
    /\ gst.out.err = "none"
    /\ Len(gst.out.flags) = 3

---------------------------------------------------------------------------
(* Flag.densities.  The arguments and the state of a call in progress are  *)
(* kept in gin and gst.                                                    *)

\* large_points of the pass for difference
large_points_of(self, ftype_remap, small_size, difference) ==
    [ii \in 1..Len(ftype_remap) |->
        IF ftype_remap[ii] < small_size
        THEN self.ftype_points[ftype_remap[ii] + 1]
        ELSE difference[ftype_remap[ii] - small_size + 1]]

\* n1flgs.index(x): the first position whose Flag == x, or -1 for the
\* ValueError of list.index
flag_index(flgs, x) ==
    IF \E j \in 1..Len(flgs) : Flag_eq(flgs[j], x)
    THEN (CHOOSE j \in 1..Len(flgs) :
             /\ Flag_eq(flgs[j], x)
             /\ \A k \in 1..(j - 1) : ~Flag_eq(flgs[k], x)) - 1
    ELSE -1

\* the passes of the innermost loops of densities: for every difference
\* that passes the test of the large type, every n1_extra_points and every
\* n2_extra_points, the indices found (n2_ind is -2 for the pass of the n1
\* loop itself)
densities_passes(self, n1, n1flgs, n2, n2flgs, ftype_remap, large_ftype, small_ftype) ==
    LET small_size == small_ftype.n
        large_size == large_ftype.n
        differences == permutations(not_ftype_points(self), large_size - small_size)
    IN  UNION {
          LET difference == differences[d]
              large_points == large_points_of(self, ftype_remap, small_size, difference)
              ind_large_ftype == subflag(self, Given(<<>>), Given(large_points)).flag
              not_large_points == SelectSeq(TupleRange(self.n),
                                            LAMBDA ii : ii \notin Range(large_points))
              n1_choices == combinations(not_large_points, n1 - large_size)
          IN  IF ~Flag_eq(ind_large_ftype, large_ftype) THEN {}
              ELSE UNION {
                     LET n1_extra_points == n1_choices[c1]
                         n1_subf == subflag(self, Given(n1_extra_points),
                                            Given(large_points)).flag
                         n1_ind == flag_index(n1flgs, n1_subf)
                         remaining_points ==
                             SelectSeq(not_large_points,
                                       LAMBDA ii : ii \notin Range(n1_extra_points))
                         n2_choices == combinations(remaining_points, n2 - large_size)
                     IN  {<<d, c1, 0, n1_ind, -2>>}
                         \cup (IF n1_ind < 0 THEN {}
                               ELSE {<<d, c1, c2, n1_ind,
                                       flag_index(n2flgs,
                                           subflag(self, Given(n2_choices[c2]),
                                                   Given(large_points)).flag)>>
                                        : c2 \in 1..Len(n2_choices)})
                     : c1 \in 1..Len(n1_choices)}
          : d \in 1..Len(differences)}

\* what densities gives back: (len(n1flgs), len(n2flgs), ret) or a raised
\* exception
DensReturn(l1, l2, ret) == [err |-> "none", l1 |-> l1, l2 |-> l2, ret |-> ret]
DensRaise(e) == [err |-> e, l1 |-> 0, l2 |-> 0, ret |-> <<>>]

densities(self, n1, n1flgs, n2, n2flgs, ftype_remap, large_ftype, small_ftype) ==
    LET passes == densities_passes(self, n1, n1flgs, n2, n2flgs, ftype_remap,
                                   large_ftype, small_ftype)
        counted == {p \in passes : p[5] >= 0}
        keys == {<<p[4], p[5]>> : p \in counted}
    IN  IF \E p \in passes : p[4] = -1 \/ p[5] = -1 THEN DensRaise("ValueError")
        ELSE DensReturn(Len(n1flgs), Len(n2flgs),
                        [key \in keys |->
                            Cardinality({p \in counted : <<p[4], p[5]>> = key})])

---------------------------------------------------------------------------
(* The densities session: the arguments of a call are given, then          *)
(* densities is called with them.                                          *)

\* the graphs on m points whose type points are the first k points
TypedGraphsOn(m, k) ==
    {x \in FlagsOn("Graph", m) : x.ftype_points = TupleRange(k)}

\* the lists of at most two distinct graphs on m points typed by the first
\* k points
FlagLists(m, k) ==
    {sq \in UNION {[1..len -> TypedGraphsOn(m, k)] : len \in 0..2} :
        \A i, j \in 1..Len(sq) : sq[i] = sq[j] => i = j}

\* the arguments of a call on self: the sizes, the large type on at most
\* one point more than the small one, the remap and the two lists
DensArgs(self) ==
    LET small_size == Len(self.ftype_points)
        large_ftypes(n1, n2) ==
            {x \in TypedGraphsOn(0, 0) \cup TypedGraphsOn(1, 1) :
                /\ small_size <= x.n
                /\ x.n <= n1
                /\ x.n <= n2
                /\ n1 + n2 - x.n <= self.n}
    IN  UNION {UNION {
          [self : {self}, n1 : {pair[1]}, n2 : {pair[2]},
           n1flgs : FlagLists(pair[1], large_ftype.n),
           n2flgs : FlagLists(pair[2], large_ftype.n),
           ftype_remap : InjSeqs(large_ftype.n, large_ftype.n),
           large_ftype : {large_ftype},
           small_ftype : TypedGraphsOn(small_size, small_size)]
          : large_ftype \in large_ftypes(pair[1], pair[2])}
          : pair \in (0..2) \X (0..2)}

DensInit ==
    /\ \E self \in {x \in SmallFlags : x.theory = "Graph" /\ Len(x.ftype_points) <= 1} :
          gin \in DensArgs(self)
    /\ gst = [pc |-> "start", out |-> DensReturn(0, 0, <<>>)]
    /\ FSIdle
    /\ PTIdle
    /\ ETIdle
    /\ PDIdle

Densities ==
    /\ gst.pc = "start"
    /\ gst' = [pc |-> "densities",
               out |-> densities(gin.self, gin.n1, gin.n1flgs, gin.n2, gin.n2flgs,
                                 gin.ftype_remap, gin.large_ftype, gin.small_ftype)]
    /\ UNCHANGED <<gin, fsVars, ptVars, etVars, pdVars>>

DensNext == Densities

SpecDens == DensInit /\ [][DensNext]_vars

---------------------------------------------------------------------------
(* Properties of Flag.densities *)

\* the placements of the large type in the structure: the lists of its
\* points that induce a type == large_ftype
LargePlacements ==
    {L \in InjSeqs(gin.self.n, gin.large_ftype.n) :
        /\ \A ii \in 1..Len(gin.ftype_remap) :
              gin.ftype_remap[ii] < Len(gin.self.ftype_points) =>
                  L[ii] = gin.self.ftype_points[gin.ftype_remap[ii] + 1]
        /\ \A ii \in 1..Len(gin.ftype_remap) :
              gin.ftype_remap[ii] >= Len(gin.self.ftype_points) =>
                  L[ii] \notin Range(gin.self.ftype_points)
        /\ Isomorphic(InducedFlag(gin.self, L, L), gin.large_ftype)}

\* the sub-structures of m points induced around the placement L
InducedAround(L, m) ==
    {InducedFlag(gin.self, L \o S, L) :
        S \in {sq \in InjSeqs(gin.self.n, m - Len(L)) :
                  Range(sq) \cap Range(L) = {}}}

\* C21: densities raises ValueError as soon as an induced sub-structure
\* (typed by the large type) is not found by == in n1flgs or n2flgs, and
\* otherwise returns (len(n1flgs), len(n2flgs), counts) where every key
\* (i, j) lies inside the two lists and every count is at least 1.
C21_DensitiesFindsEverySubstructure ==
    (gst.pc = "densities" /\ gst.out.err = "none") =>
        /\ \A L \in LargePlacements :
              \A x \in InducedAround(L, gin.n1) :
                 \E j \in 1..Len(gin.n1flgs) : Isomorphic(gin.n1flgs[j], x)
        /\ gst.out.l1 = Len(gin.n1flgs)
        /\ gst.out.l2 = Len(gin.n2flgs)
        /\ \A key \in DOMAIN gst.out.ret :
              /\ 0 <= key[1] /\ key[1] < Len(gin.n1flgs)
              /\ 0 <= key[2] /\ key[2] < Len(gin.n2flgs)
              /\ gst.out.ret[key] >= 1

---------------------------------------------------------------------------
(* PolyDict.__mul__ and PolyDict.valuation                                 *)

RatMul(c, d) == Rat(c[1] * d[1], c[2] * d[2])

\* what __mul__ gives back: the object returned ("self", "right", or a
\* "new" PolyDict) with its mapping, or a raised exception
MulReturn(obj, D) == [err |-> "none", is |-> obj, pd |-> D]
MulRaise(e) == [err |-> e, is |-> "none", pd |-> <<>>]

\* newpoly after the term c0*c1 at e was accumulated
mul_accumulate(newpoly, e, c) ==
    IF RatIsZero(c) THEN newpoly
    ELSE IF ~DictHas(newpoly, e) THEN DictSet(newpoly, e, c)
    ELSE DictSet(newpoly, e, RatAdd(DictGet(newpoly, e), c))

RECURSIVE PolyDict_mul_loop(_, _, _, _, _)
PolyDict_mul_loop(self, right, j0, j1, newpoly) ==
    IF j0 > Len(self) THEN MulReturn("new", newpoly)
    ELSE IF j1 > Len(right) THEN PolyDict_mul_loop(self, right, j0 + 1, 1, newpoly)
    ELSE LET e == eadd(self[j0][1], right[j1][1])
             c == RatMul(self[j0][2], right[j1][2])
         IN  IF e.err # "none" THEN MulRaise(e.err)
             ELSE PolyDict_mul_loop(self, right, j0, j1 + 1,
                                    mul_accumulate(newpoly, e.et, c))

\* a __mul__ that builds the product of an empty operand as well
PolyDict_mul_no_shortcut(self, right) ==
    PolyDict_mul_loop(self, right, 1, 1, <<>>)

\* self * right
PolyDict_mul(self, right) ==
    IF self = <<>> THEN MulReturn("self", self)
    ELSE IF right = <<>> THEN MulReturn("right", right)
    ELSE PolyDict_mul_loop(self, right, 1, 1, <<>>)

\* what valuation gives back: an integer or a raised exception
ValReturn(v) == [err |-> "none", v |-> v]
ValRaise(e) == [err |-> e, v |-> 0]

\* v.nonzero_values(sort=False) for a value v of __repn: the values of
\* the mapping are the coefficients, and a coefficient has no such method
value_nonzero_values(v) == [err |-> "AttributeError", vals |-> <<>>]

RECURSIVE SeqSum(_)
SeqSum(s) == IF s = <<>> THEN 0 ELSE s[1] + SeqSum(Tail(s))

\* min(_min)
min_of(_min) ==
    IF _min = <<>> THEN ValRaise("ValueError")
    ELSE ValReturn(CHOOSE x \in {_min[j] : j \in 1..Len(_min)} :
                       \A j \in 1..Len(_min) : x <= _min[j])

RECURSIVE valuation_negative_loop(_, _, _)
valuation_negative_loop(self, j, _min) ==
    IF j > Len(self) THEN min_of(_min)
    ELSE LET nz == value_nonzero_values(self[j][2])
         IN  IF nz.err # "none" THEN ValRaise(nz.err)
             ELSE valuation_negative_loop(self, j + 1,
                      Append(_min, SeqSum(SelectSeq(nz.vals, LAMBDA x : x < 0))))

RECURSIVE valuation_loop(_, _, _)
valuation_loop(self, j, _min) ==
    IF j > Len(self) THEN min_of(_min)
    ELSE LET nz == value_nonzero_values(self[j][2])
         IN  IF nz.err # "none" THEN ValRaise(nz.err)
             ELSE IF \E k \in 1..Len(nz.vals) : nz.vals[k] < 0
             THEN valuation_negative_loop(self, 1, _min)
             ELSE valuation_loop(self, j + 1, Append(_min, SeqSum(nz.vals)))

\* self.valuation() without a generator
valuation(self) == valuation_loop(self, 1, <<>>)

---------------------------------------------------------------------------
(* The product session: f and g are constructed, then f * g or             *)
(* f.valuation() is called; q holds what the call gave back                *)

PolyKeys == {<<0, 0>>, <<1, 0>>, <<2, 1>>, <<3, 0>>, <<-1, 2>>}
PolyCoefs == {<<0, 1>>, <<1, 1>>, <<-1, 2>>}

PolyInit ==
    /\ PDStart(Terms(PolyKeys, PolyCoefs))
    /\ g \in {PolyDict_init(l, FALSE) : l \in Lists(Terms(PolyKeys, PolyCoefs), 1)}
    /\ ETIdle
    /\ FlIdle

Mul ==
    /\ pdpc = "start"
    /\ q' = PolyDict_mul(f, g)
    /\ pdpc' = "mul"
    /\ UNCHANGED <<pdlist, f, g, r, perr, pdi, pdj, cmpres, etVars, flVars>>

Valuation ==
    /\ pdpc = "start"
    /\ q' = valuation(f)
    /\ pdpc' = "valuation"
    /\ UNCHANGED <<pdlist, f, g, r, perr, pdi, pdj, cmpres, etVars, flVars>>

PolyNext ==
    \/ Mul
    \/ Valuation

SpecPoly == PolyInit /\ [][PolyNext]_vars

---------------------------------------------------------------------------
(* Properties of PolyDict.__mul__ and PolyDict.valuation *)

\* the product of two mappings, term by term
ProductCoef(D, R, e) ==
    LET pairs == {p \in (1..Len(D)) \X (1..Len(R)) :
                     /\ ~RatIsZero(RatMul(D[p[1]][2], R[p[2]][2]))
                     /\ richcmp_eq(eadd(D[p[1]][1], R[p[2]][1]).et, e)}
    IN  pairs

\* C22: f * g returns the operand itself when an operand is empty (f if f
\* is empty, otherwise g if g is empty); otherwise, when no exception is
\* raised, it returns a new PolyDict whose keys are exactly the sums of
\* exponents with a nonzero product of coefficients; the call changes the
\* mapping of neither operand
C22_MulReturnsEmptyOperand ==
    [][Mul =>
        /\ f' = f /\ g' = g
        /\ f = <<>> => q' = MulReturn("self", f)
        /\ (f # <<>> /\ g = <<>>) => q' = MulReturn("right", g)
        /\ (f # <<>> /\ g # <<>> /\ q'.err = "none") =>
              /\ q'.is = "new"
              /\ \A j \in 1..Len(q'.pd) : ProductCoef(f, g, q'.pd[j][1]) # {}
              /\ \A p \in (1..Len(f)) \X (1..Len(g)) :
                    LET e == eadd(f[p[1]][1], g[p[2]][1]).et
                    IN  Cardinality(ProductCoef(f, g, e)) = 1 => DictHas(q'.pd, e)]_vars

C22_Witness ==
    /\ pdpc = "mul"
    /\ f # <<>>
    /\ g = <<>>
    /\ q = MulReturn("right", g)

\* C27: on a non-empty PolyDict whose exponents are all non-negative,
\* valuation() returns the least sum of the exponents of a term
C27_ValuationIsLeastExponentSum ==
    (/\ pdpc = "valuation"
     /\ f # <<>>
     /\ \A j \in 1..Len(f) : \A k \in 1..Len(f[j][1].data) : f[j][1].data[k][2] >= 0)
    => /\ q.err = "none"
       /\ \E j \in 1..Len(f) : q.v = SeqSum([k \in 1..Len(f[j][1].data) |-> f[j][1].data[k][2]])
       /\ \A j \in 1..Len(f) : q.v <= SeqSum([k \in 1..Len(f[j][1].data) |-> f[j][1].data[k][2]])

---------------------------------------------------------------------------
(* ETuple: the other constructor paths and the structural operations       *)

\* the keys of a dict of ints, as sorted(data.items()) lists them
RECURSIVE sorted_keys(_)
sorted_keys(K) ==
    IF K = {} THEN <<>>
    ELSE LET k == CHOOSE x \in K : \A y \in K : x <= y
         IN  <<k>> \o sorted_keys(K \ {k})

\* ETuple(data, length) for a dict data, here a function from its keys
ETuple_from_dict(d, length) ==
    LET nz_elts == sorted_keys(DOMAIN d)
    IN  [length |-> length,
         data |-> [ind \in 1..Len(nz_elts) |-> <<nz_elts[ind], d[nz_elts[ind]]>>]]

\* ETuple(data) for an ETuple data
ETuple_from_ETuple(e) == [length |-> e.length, data |-> e.data]

\* self + other
ETuple_add(self, other) ==
    [length |-> self.length + other.length,
     data |-> self.data \o
              [index \in 1..nonzero(other) |->
                  <<IndexAt(other, index - 1) + self.length, ValueAt(other, index - 1)>>]]

\* self * factor
ETuple_mul(self, factor) ==
    IF factor <= 0 THEN [length |-> 0, data |-> <<>>]
    ELSE [length |-> self.length * factor,
          data |-> [p \in 1..(nonzero(self) * factor) |->
                      LET rep == (p - 1) \div nonzero(self)
                          index == (p - 1) % nonzero(self)
                      IN  <<IndexAt(self, index) + rep * self.length,
                            ValueAt(self, index)>>]]

\* what a slice bound is: None or an integer
NoBound == [given |-> FALSE, v |-> 0]
Bound(x) == [given |-> TRUE, v |-> x]

\* self[start:stop]
ETuple_getslice(self, start, stop) ==
    IF (start.given /\ start.v < 0 /\ self.length = 0)
       \/ (stop.given /\ stop.v <= self.length /\ stop.v < 0 /\ self.length = 0)
    THEN Raise("ZeroDivisionError")
    ELSE LET lo == IF ~start.given THEN 0
                   ELSE IF start.v < 0 THEN start.v % self.length
                   ELSE IF start.v > self.length THEN self.length
                   ELSE start.v
             hi == IF ~stop.given \/ stop.v > self.length THEN self.length
                   ELSE IF stop.v < 0 THEN stop.v % self.length
                   ELSE stop.v
             d == [ind \in 1..(hi - lo) |-> get_exp(self, lo + ind - 1)]
         IN  Return(ETuple(d))

\* self.emul(factor): the products are taken in a C int
emul(self, factor) ==
    IF factor = 0 THEN [length |-> self.length, data |-> <<>>]
    ELSE [length |-> self.length,
          data |-> [ind \in 1..nonzero(self) |->
                      <<IndexAt(self, ind - 1), Wrap(ValueAt(self, ind - 1) * factor)>>]]

\* x / n on two C ints: the file sets no cdivision directive, so the build
\* decides between Python's division (floor, OverflowError on the one
\* quotient that does not fit) and C's (truncation; the quotient that does
\* not fit traps or wraps)
DivisionBuilds == {"python", "c_trap", "c_wrap"}

FloorDiv(x, n) ==
    IF n > 0 THEN x \div n ELSE (0 - x) \div (0 - n)

TruncDiv(x, n) ==
    LET qq == Abs(x) \div Abs(n)
    IN  IF (x < 0) # (n < 0) THEN 0 - qq ELSE qq

int_div(x, n, build) ==
    IF x = MinInt /\ n = -1
    THEN (IF build = "python" THEN ReturnInt(0) @@ [err |-> "OverflowError"]
          ELSE IF build = "c_trap" THEN ReturnInt(0) @@ [err |-> "SIGFPE"]
          ELSE ReturnInt(MinInt))
    ELSE IF build = "python" THEN ReturnInt(FloorDiv(x, n))
    ELSE ReturnInt(TruncDiv(x, n))

RECURSIVE escalar_div_loop(_, _, _, _, _)
escalar_div_loop(self, n, build, i, acc) ==
    IF i >= nonzero(self) THEN Return([length |-> self.length, data |-> acc])
    ELSE LET quot == int_div(ValueAt(self, i), n, build)
         IN  IF quot.err # "none" THEN Raise(quot.err)
             ELSE escalar_div_loop(self, n, build, i + 1,
                      IF quot.iv # 0 THEN Append(acc, <<IndexAt(self, i), quot.iv>>)
                      ELSE acc)

\* self.escalar_div(n)
escalar_div(self, n, build) ==
    IF n = 0 THEN Raise("ZeroDivisionError")
    ELSE escalar_div_loop(self, n, build, 0, <<>>)

\* divide_by_var returns None where self[index] is not stored
ReturnNone == [err |-> "None", et |-> NoETuple, bv |-> FALSE, iv |-> 0]

\* self.divide_by_var(index)
divide_by_var(self, index) ==
    LET S == {i \in 1..nonzero(self) : IndexAt(self, i - 1) = index}
    IN  IF S = {} THEN ReturnNone
        ELSE LET i == CHOOSE x \in S : TRUE
                 exp1 == ValueAt(self, i - 1)
             IN  IF exp1 > 1
                 THEN Return([length |-> self.length,
                              data |-> [self.data EXCEPT ![i] = <<index, Wrap(exp1 - 1)>>]])
                 ELSE Return([length |-> self.length,
                              data |-> SubSeq(self.data, 1, i - 1)
                                       \o SubSeq(self.data, i + 1, nonzero(self))])

\* self.reversed()
ETuple_reversed(self) ==
    [length |-> self.length,
     data |-> [p \in 1..nonzero(self) |->
                 LET ind == nonzero(self) - p
                 IN  <<self.length - IndexAt(self, ind) - 1, ValueAt(self, ind)>>]]

---------------------------------------------------------------------------
(* The storage session: an ETuple is made by one of the constructor paths  *)
(* or by one operation on the vectors a and b; res holds it                *)

\* the dicts passed to ETuple(data, length): keys below MaxLen
DictVals == {-1, 0, 1}
Dicts == UNION {[K -> DictVals] : K \in SUBSET (0..(MaxLen - 1))}
Factors == {-1, 0, 1, 2}
Bounds == {NoBound} \cup {Bound(x) : x \in (0 - MaxLen)..(MaxLen + 1)}

StoreInit ==
    /\ a \in ETuples
    /\ b \in ETuples
    /\ scalar = 0
    /\ pc = "start"
    /\ res = Return(NoETuple)
    /\ PDIdle
    /\ FlIdle

StoreCall(name, out) ==
    /\ pc = "start"
    /\ pc' = name
    /\ res' = out
    /\ UNCHANGED <<a, b, scalar, pdVars, flVars>>

FromSequence ==
    \E d \in DenseTuples : d # <<>> /\ StoreCall("ETuple(sequence)", Return(ETuple(d)))

FromDict ==
    \E d \in Dicts, length \in 0..MaxLen :
        StoreCall("ETuple(dict, length)", Return(ETuple_from_dict(d, length)))

FromETuple == StoreCall("ETuple(ETuple)", Return(ETuple_from_ETuple(a)))

StoreEadd == StoreCall("eadd", eadd(a, b))
StoreEsub == StoreCall("esub", esub(a, b))
StoreEmax == StoreCall("emax", emax(a, b))
StoreEmin == StoreCall("emin", emin(a, b))
StoreDivideByGcd == StoreCall("divide_by_gcd", divide_by_gcd(a, b))
StoreReversed == StoreCall("reversed", Return(ETuple_reversed(a)))
StoreAdd == StoreCall("+", Return(ETuple_add(a, b)))

StoreEaddScaled ==
    \E k \in Scalars :
        /\ pc = "start"
        /\ pc' = "eadd_scaled"
        /\ scalar' = k
        /\ res' = eadd_scaled(a, b, k)
        /\ UNCHANGED <<a, b, pdVars, flVars>>

StoreEaddP ==
    \E k \in Scalars, pos \in 0..MaxLen : StoreCall("eadd_p", eadd_p(a, k, pos))

StoreEmul ==
    \E k \in Scalars :
        /\ pc = "start"
        /\ pc' = "emul"
        /\ scalar' = k
        /\ res' = Return(emul(a, k))
        /\ UNCHANGED <<a, b, pdVars, flVars>>

StoreEscalarDiv ==
    \E k \in Scalars, build \in DivisionBuilds :
        StoreCall("escalar_div", escalar_div(a, k, build))

StoreDivideByVar ==
    \E index \in 0..MaxLen : StoreCall("divide_by_var", divide_by_var(a, index))

StoreMul ==
    \E factor \in Factors : StoreCall("*", Return(ETuple_mul(a, factor)))

StoreSlice ==
    \E start \in Bounds, stop \in Bounds :
        StoreCall("slice", ETuple_getslice(a, start, stop))

StoreNext ==
    \/ FromSequence
    \/ FromDict
    \/ FromETuple
    \/ StoreEadd
    \/ StoreEsub
    \/ StoreEaddScaled
    \/ StoreEaddP
    \/ StoreEmul
    \/ StoreEmax
    \/ StoreEmin
    \/ StoreEscalarDiv
    \/ StoreDivideByGcd
    \/ StoreDivideByVar
    \/ StoreReversed
    \/ StoreAdd
    \/ StoreMul
    \/ StoreSlice

SpecStore == StoreInit /\ [][StoreNext]_vars

---------------------------------------------------------------------------
(* Properties of the ETuple storage *)

\* the storage invariant: indices strictly increasing and inside the logical
\* length, no stored pair with value 0
StorageInvariant(e) ==
    /\ \A i \in 1..Len(e.data) :
          /\ 0 <= e.data[i][1]
          /\ e.data[i][1] < e.length
          /\ e.data[i][2] # 0
    /\ \A i \in 1..(Len(e.data) - 1) : e.data[i][1] < e.data[i + 1][1]

\* C23: every ETuple made by a constructor path or returned by an
\* operation satisfies the storage invariant
C23_StorageInvariant ==
    (pc # "start" /\ res.err = "none") => StorageInvariant(res.et)

---------------------------------------------------------------------------
(* The certificate cache of a Flag: _unique and _weak_unique               *)

\* a cache slot: None, or the certificate stored in it
NoCert == [ftype_size |-> 0, weak |-> FALSE, edges |-> {}]
CacheNone == [some |-> FALSE, v |-> NoCert]
CacheOf(ret) == [some |-> TRUE, v |-> ret]

\* a Flag object after __init__: both slots are None; oracle[weak] counts
\* the calls of canonical_form_from_edge_list made for it
FlagObject(x) ==
    [flag |-> x, _unique |-> CacheNone, _weak_unique |-> CacheNone,
     oracle |-> [w \in BOOLEAN |-> 0]]

\* what a method called on objects of the heap gives back, with the heap
\* it leaves
HeapReturn(heap, ret) == [heap |-> heap, ret |-> ret, bv |-> FALSE]
HeapReturnBool(heap, v) == [heap |-> heap, ret |-> NoCert, bv |-> v]

\* a unique(weak) that keeps one slot for both variants
unique_cached_one_slot(heap, ref, weak) ==
    LET obj == heap[ref]
    IN  IF obj._unique.some THEN HeapReturn(heap, obj._unique.v)
        ELSE LET ret == unique(obj.flag, weak)
             IN  HeapReturn([heap EXCEPT ![ref] =
                                [obj EXCEPT !.oracle[weak] = @ + 1,
                                            !._unique = CacheOf(ret)]], ret)

\* self.unique(weak) on the object heap[ref]
unique_cached(heap, ref, weak) ==
    LET obj == heap[ref]
    IN  IF weak /\ obj._weak_unique.some THEN HeapReturn(heap, obj._weak_unique.v)
        ELSE IF ~weak /\ obj._unique.some THEN HeapReturn(heap, obj._unique.v)
        ELSE LET ret == unique(obj.flag, weak)
                 counted == [obj EXCEPT !.oracle[weak] = @ + 1]
             IN  HeapReturn([heap EXCEPT ![ref] =
                                IF weak THEN [counted EXCEPT !._weak_unique = CacheOf(ret)]
                                ELSE [counted EXCEPT !._unique = CacheOf(ret)]], ret)

\* self.weak_equal(other) / self.normal_equal(other) on heap objects
equal_cached(heap, sref, oref, weak) ==
    LET self == heap[sref].flag
        other == heap[oref].flag
    IN  IF self.theory # other.theory THEN HeapReturnBool(heap, FALSE)
        ELSE IF Len(self.ftype_points) # Len(other.ftype_points)
        THEN HeapReturnBool(heap, FALSE)
        ELSE LET sun == unique_cached(heap, sref, weak)
                 oun == unique_cached(sun.heap, oref, weak)
             IN  HeapReturnBool(oun.heap, sun.ret = oun.ret)

\* self == other on heap objects
eq_cached(heap, sref, oref) ==
    IF heap[sref].flag.theory # heap[oref].flag.theory THEN HeapReturnBool(heap, FALSE)
    ELSE equal_cached(heap, sref, oref, FALSE)

\* self < other on heap objects: the types and the induced structures of
\* other are objects of their own, self is compared with each by ==
lt_cached(heap, sref, oref) ==
    LET self == heap[sref].flag
        other == heap[oref].flag
    IN  IF self.theory # other.theory THEN HeapReturnBool(heap, FALSE)
        ELSE IF self.n >= other.n THEN HeapReturnBool(heap, FALSE)
        ELSE IF ~Flag_eq(ftype(self), ftype(other)) THEN HeapReturnBool(heap, FALSE)
        ELSE HeapReturnBool(unique_cached(heap, sref, FALSE).heap, Flag_lt(self, other))

\* self <= other on heap objects
le_cached(heap, sref, oref) ==
    LET first == eq_cached(heap, sref, oref)
    IN  IF first.bv THEN first ELSE lt_cached(first.heap, sref, oref)

\* hash(self): the hash of self.unique()[0] is not modelled, the call is
hash_cached(heap, ref) == unique_cached(heap, ref, FALSE)

---------------------------------------------------------------------------
(* The cache session: a Flag self and a Flag other (the same object or a   *)
(* second one) are constructed, then up to MaxCalls methods are called on  *)
(* self; gst holds the objects before and after the last call              *)

MaxCalls == 3

CacheSelves == UNION {FlagsOn("Graph", k) : k \in 0..2} \cup FlagsOn("DiGraph", 1)
CacheOthers == UNION {FlagsOn("Graph", k) : k \in 0..3}

CacheInit ==
    /\ \E self \in CacheSelves :
          \/ /\ gin = [other |-> "s"]
             /\ gst = [heap |-> [s |-> FlagObject(self), t |-> FlagObject(self)],
                       before |-> [s |-> FlagObject(self), t |-> FlagObject(self)],
                       pc |-> "start", weak |-> FALSE, n |-> 0,
                       out |-> HeapReturnBool(<<>>, FALSE)]
          \/ \E other \in CacheOthers :
                /\ gin = [other |-> "t"]
                /\ gst = [heap |-> [s |-> FlagObject(self), t |-> FlagObject(other)],
                          before |-> [s |-> FlagObject(self), t |-> FlagObject(other)],
                          pc |-> "start", weak |-> FALSE, n |-> 0,
                          out |-> HeapReturnBool(<<>>, FALSE)]
    /\ FSIdle
    /\ PTIdle
    /\ ETIdle
    /\ PDIdle

CacheCall(name, weak, out) ==
    /\ gst.n < MaxCalls
    /\ gst' = [heap |-> out.heap, before |-> gst.heap, pc |-> name, weak |-> weak,
               n |-> gst.n + 1, out |-> [out EXCEPT !.heap = <<>>]]
    /\ UNCHANGED <<gin, fsVars, ptVars, etVars, pdVars>>

CacheUnique ==
    \E weak \in BOOLEAN : CacheCall("unique", weak, unique_cached(gst.heap, "s", weak))

CacheEqual ==
    \E weak \in BOOLEAN :
        CacheCall(IF weak THEN "weak_equal" ELSE "normal_equal", weak,
                  equal_cached(gst.heap, "s", gin.other, weak))

CacheEq == CacheCall("eq", FALSE, eq_cached(gst.heap, "s", gin.other))
CacheLt == CacheCall("lt", FALSE, lt_cached(gst.heap, "s", gin.other))
CacheLe == CacheCall("le", FALSE, le_cached(gst.heap, "s", gin.other))
CacheHash == CacheCall("hash", FALSE, hash_cached(gst.heap, "s"))

CacheNext ==
    \/ CacheUnique
    \/ CacheEqual
    \/ CacheEq
    \/ CacheLt
    \/ CacheLe
    \/ CacheHash

SpecCache == CacheInit /\ [][CacheNext]_vars

---------------------------------------------------------------------------
(* Properties of the certificate cache *)

\* the slot of the variant in an object
Slot(obj, weak) == IF weak THEN obj._weak_unique ELSE obj._unique

\* C24: over any sequence of unique(weak), ==, normal_equal, weak_equal, <,
\* <= and hash the oracle is called at most once for each Flag and each
\* variant; a filled slot holds the certificate of its own variant and is
\* never changed by a later call; a call that returns the certificate
\* returns the one in the slot; and a call leaves the slot of a variant
\* exactly when it does not call the oracle for this variant
C24_OracleOncePerVariant ==
    gst.pc # "start" =>
        \A ref \in {"s", "t"}, weak \in BOOLEAN :
            LET obj == gst.heap[ref]
                old == gst.before[ref]
            IN  /\ obj.oracle[weak] <= 1
                /\ Slot(obj, weak).some <=> obj.oracle[weak] = 1
                /\ Slot(obj, weak).some => Slot(obj, weak).v = unique(obj.flag, weak)
                /\ Slot(old, weak).some => Slot(obj, weak) = Slot(old, weak)
                /\ (obj.oracle[weak] = old.oracle[weak]) => Slot(obj, weak) = Slot(old, weak)
                /\ (gst.pc = "unique" /\ ref = "s" /\ weak = gst.weak)
                      => gst.out.ret = Slot(obj, weak).v

\* unique(weak=True) was called after unique() had filled the other slot,
\* and a third call found both slots filled
C24_Witness ==
    /\ gst.pc = "unique"
    /\ gst.n = 3
    /\ gst.heap["s"]._unique.some
    /\ gst.heap["s"]._weak_unique.some
    /\ gst.before["s"]._unique.some
    /\ gst.before["s"]._weak_unique.some
    /\ gst.heap["s"].flag.n = 2
    /\ gst.heap["s"]._unique.v # gst.heap["s"]._weak_unique.v

---------------------------------------------------------------------------
(* The relabelling session: nonequal_permutations is called on a Flag      *)

PermInit ==
    /\ gin \in [self : Flags]
    /\ gst = GenStart
    /\ FSIdle
    /\ PTIdle
    /\ ETIdle
    /\ PDIdle

NonequalPermutationsOf ==
    /\ gst.pc = "start"
    /\ gst' = [pc |-> "nonequal_permutations", implicit_noexcept |-> FALSE,
               out |-> GenReturn(nonequal_permutations(gin.self))]
    /\ UNCHANGED <<gin, fsVars, ptVars, etVars, pdVars>>

PermNext == NonequalPermutationsOf

SpecPerm == PermInit /\ [][PermNext]_vars

---------------------------------------------------------------------------
(* Properties of Flag.nonequal_permutations *)

\* C25: nonequal_permutations() returns relabellings of self of which no
\* two are strong_equal, every self.subflag(points=p) for a permutation p of
\* the points is strong_equal to one of them, and the first one is self
C25_NonequalPermutations ==
    gst.pc = "nonequal_permutations" =>
        LET ret == gst.out.flags
        IN  /\ gst.out.err = "none"
            /\ \A i, j \in 1..Len(ret) : i # j => ~strong_equal(ret[i], ret[j])
            /\ \A p \in InjSeqs(gin.self.n, gin.self.n) :
                  \E j \in 1..Len(ret) :
                     strong_equal(subflag(gin.self, Given(p), NotGiven).flag, ret[j])
            /\ Len(ret) >= 1
            /\ ret[1] = gin.self

\* a typed Flag on three points with several relabellings, fewer than the
\* permutations of its points
C25_Witness ==
    /\ gst.pc = "nonequal_permutations"
    /\ gin.self.n = 3
    /\ Len(gin.self.ftype_points) = 1
    /\ Len(gin.self.blocks.edges) = 1
    /\ Len(gst.out.flags) > 1
    /\ Len(gst.out.flags) < 6

---------------------------------------------------------------------------
(* Cancellation.  sig_check() raises KeyboardInterrupt when an interrupt   *)
(* is pending.  Every enumerating function is the nest of its loops, the   *)
(* outermost first; polls says whether the body of the loop starts with    *)
(* sig_check()                                                             *)

Loop(name, polls) == [name |-> name, polls |-> polls]

LoopNest(fn) ==
    CASE fn = "possible_mergings" ->
            <<Loop("F", FALSE), Loop("G", FALSE), Loop("F_permed", FALSE),
              Loop("ext", TRUE)>>
      [] fn = "_excluded_compatible" ->
            <<Loop("ii", FALSE), Loop("extra_points", FALSE)>>
      [] fn = "nonequal_permutations" -> <<Loop("perm", TRUE)>>
      [] fn = "ftypes_inside" -> <<Loop("ftype_points", TRUE)>>
      [] fn = "densities" ->
            <<Loop("difference", TRUE), Loop("n1_extra_points", FALSE),
              Loop("n2_extra_points", FALSE)>>
      [] fn = "__lt__" -> <<Loop("subp", TRUE)>>
      [] fn = "is_compatible" -> <<Loop("perm", FALSE)>>

EnumeratingFunctions ==
    {"possible_mergings", "_excluded_compatible", "nonequal_permutations",
     "ftypes_inside", "densities", "__lt__", "is_compatible"}

\* the passes of the loops below level k that one pass of level k holds,
\* every loop making trips passes
RECURSIVE PassesBelow(_, _, _)
PassesBelow(nest, k, trips) ==
    IF k >= Len(nest) THEN 1 ELSE trips * PassesBelow(nest, k + 1, trips)

\* the passes of the innermost loop in one call
TotalPasses(nest, trips) == trips * PassesBelow(nest, 1, trips)

\* sig_check() is run between the end of pass p - 1 of the innermost loop
\* and the body of its pass p: a loop of the nest that starts a pass there
\* polls
PollsBefore(nest, trips, p) ==
    \E k \in 1..Len(nest) :
        /\ nest[k].polls
        /\ (p - 1) % PassesBelow(nest, k, trips) = 0

---------------------------------------------------------------------------
(* The cancellation session: one enumerating function runs, every loop of  *)
(* it making gin.trips passes; an interrupt may arrive once, at any time;  *)
(* gst.since counts the passes of the innermost loop started since         *)

MaxTrips == 3

CancelInit ==
    /\ gin \in [fn : EnumeratingFunctions, trips : 1..MaxTrips]
    /\ gst = [pc |-> "running", pos |-> 0, pending |-> FALSE, since |-> 0]
    /\ FSIdle
    /\ PTIdle
    /\ ETIdle
    /\ PDIdle

Interrupt ==
    /\ gst.pc = "running"
    /\ ~gst.pending
    /\ gst' = [gst EXCEPT !.pending = TRUE]
    /\ UNCHANGED <<gin, fsVars, ptVars, etVars, pdVars>>

\* the next pass of the innermost loop, or the KeyboardInterrupt of a
\* sig_check() on the way to it
NextPass ==
    /\ gst.pc = "running"
    /\ gst.pos < TotalPasses(LoopNest(gin.fn), gin.trips)
    /\ gst' = IF gst.pending /\ PollsBefore(LoopNest(gin.fn), gin.trips, gst.pos + 1)
              THEN [gst EXCEPT !.pc = "KeyboardInterrupt"]
              ELSE [gst EXCEPT !.pos = @ + 1,
                               !.since = IF gst.pending THEN @ + 1 ELSE @]
    /\ UNCHANGED <<gin, fsVars, ptVars, etVars, pdVars>>

LoopsEnd ==
    /\ gst.pc = "running"
    /\ gst.pos = TotalPasses(LoopNest(gin.fn), gin.trips)
    /\ gst' = [gst EXCEPT !.pc = "returned"]
    /\ UNCHANGED <<gin, fsVars, ptVars, etVars, pdVars>>

CancelNext ==
    \/ Interrupt
    \/ NextPass
    \/ LoopsEnd

SpecCancel == CancelInit /\ [][CancelNext]_vars

---------------------------------------------------------------------------
(* Properties of the cancellation *)

\* C28: in every enumerating function of the engine, once an interrupt is
\* pending at most one further pass of the innermost enumeration loop is
\* started before the call is aborted
C28_AbortWithinOnePass == gst.since <= 1

---------------------------------------------------------------------------
(* CVXPYBackend.  The stored data of the MatrixBackend are the record      *)
(* [ncols, objective_coefficients, is_maximize, rows]: every row is        *)
(* [coefs, lb, ub] with one coefficient for each column and bounds that    *)
(* are None or a number.  A cvxpy expression is the vector of its          *)
(* coefficients, a cvxpy.Problem the record [some, maximize, expr,         *)
(* constraints] (some is FALSE for self.problem = None).                   *)

\* the coefficient of variable j (from 0) in an expression
Coef(expr, j) == IF j < Len(expr) THEN expr[j + 1] ELSE 0

\* expr + c * variables[j], over width variables
AddTerm(expr, j, c, width) ==
    [k \in 1..width |-> Coef(expr, k - 1) + (IF k - 1 = j THEN c ELSE 0)]

\* AddExpression([v * self.variables[i] for i, v in coefficients])
LinExpr(coefficients, width) ==
    [k \in 1..width |->
        SeqSum([m \in 1..Len(coefficients) |->
                   IF coefficients[m][1] = k - 1 THEN coefficients[m][2] ELSE 0])]

NoProblem == [some |-> FALSE, maximize |-> FALSE, expr |-> <<>>, constraints |-> <<>>]
Problem(maximize, expr, constraints) ==
    [some |-> TRUE, maximize |-> maximize, expr |-> expr, constraints |-> constraints]

Constraint(kind, expr, bound) == [kind |-> kind, expr |-> expr, bound |-> bound]

_cvxpy_constraints(expr, lower_bound, upper_bound) ==
    IF lower_bound.given /\ upper_bound.given /\ lower_bound.v = upper_bound.v
    THEN <<Constraint("==", expr, upper_bound.v)>>
    ELSE (IF lower_bound.given THEN <<Constraint(">=", expr, lower_bound.v)>> ELSE <<>>)
         \o (IF upper_bound.given THEN <<Constraint("<=", expr, upper_bound.v)>> ELSE <<>>)

\* the cvxpy.Problem that init_cvxpy_problem makes from the stored data
init_cvxpy_problem(s) ==
    Problem(s.is_maximize,
            IF s.ncols > 0 THEN s.objective_coefficients ELSE <<>>,
            Concat([i \in 1..Len(s.rows) |->
                       _cvxpy_constraints(s.rows[i].coefs, s.rows[i].lb, s.rows[i].ub)]))

\* what a method of the backend gives back: the backend it leaves, and the
\* exception raised
BackendReturn(s) == [err |-> "none", s |-> s]
BackendRaise(e, s) == [err |-> e, s |-> s]

\* MatrixBackend.add_linear_constraint: a new row
super_add_linear_constraint(s, coefficients, lower_bound, upper_bound) ==
    [s EXCEPT !.rows = Append(@, [coefs |-> LinExpr(coefficients, s.ncols),
                                  lb |-> lower_bound, ub |-> upper_bound])]

add_linear_constraint(s, coefficients, lower_bound, upper_bound) ==
    LET t == super_add_linear_constraint(s, coefficients, lower_bound, upper_bound)
    IN  IF ~t.problem.some THEN t
        ELSE [t EXCEPT !.problem =
                 Problem(t.problem.maximize, t.problem.expr,
                         t.problem.constraints
                         \o _cvxpy_constraints(LinExpr(coefficients, t.ncols),
                                               lower_bound, upper_bound))]

\* MatrixBackend.set_objective
super_set_objective(s, coeff) == [s EXCEPT !.objective_coefficients = coeff]

set_objective(s, coeff) ==
    LET t == super_set_objective(s, coeff)
    IN  IF ~t.problem.some THEN t
        ELSE [t EXCEPT !.problem =
                 Problem(t.problem.maximize,
                         IF t.ncols > 0 THEN coeff ELSE <<>>,
                         t.problem.constraints)]

\* MatrixBackend.set_sense
super_set_sense(s, sense) == [s EXCEPT !.is_maximize = (sense = 1)]

set_sense(s, sense) ==
    LET t == super_set_sense(s, sense)
    IN  IF ~t.problem.some THEN t
        ELSE [t EXCEPT !.problem =
                 Problem(sense = 1, t.problem.expr, t.problem.constraints)]

\* MatrixBackend.objective_coefficient(variable, coeff)
super_objective_coefficient(s, variable, coeff) ==
    [s EXCEPT !.objective_coefficients[variable + 1] = coeff]

\* objective_coefficient(variable, coeff) with a coeff
objective_coefficient(s, variable, coeff) ==
    LET t == super_objective_coefficient(s, variable, coeff)
    IN  IF ~t.problem.some THEN t
        ELSE [t EXCEPT !.problem =
                 Problem(t.problem.maximize,
                         AddTerm(t.problem.expr, variable, coeff, t.ncols),
                         t.problem.constraints)]

\* MatrixBackend.add_variable: a new column, with its entries in the rows
\* named by coefficients, and its objective coefficient
super_add_variable(s, obj, coefficients) ==
    [s EXCEPT !.ncols = @ + 1,
              !.objective_coefficients = Append(@, obj),
              !.rows = [i \in 1..Len(s.rows) |->
                           [s.rows[i] EXCEPT !.coefs =
                               Append(@, SeqSum([m \in 1..Len(coefficients) |->
                                                   IF coefficients[m][1] = i - 1
                                                   THEN coefficients[m][2] ELSE 0]))]]]

\* add_variable; coefficients is None (not given) or a list of at most one
\* pair (i, v), vtype is int(binary) + int(continuous) + int(integer)
add_variable(s, lower_bound, upper_bound, vtype, obj, coefficients) ==
    IF vtype # 0 /\ vtype # 1 THEN BackendRaise("ValueError", s)
    ELSE
    LET pairs == IF coefficients.given THEN coefficients.v ELSE <<>>
        t == super_add_variable(s, obj, pairs)
        index == s.ncols
        bounds_row(u) == add_linear_constraint(u, <<<<index, 1>>>>, lower_bound, upper_bound)
        constraints == t.problem.constraints
        objective == IF obj # 0 THEN AddTerm(t.problem.expr, index, obj, t.ncols)
                     ELSE t.problem.expr
    IN  IF ~t.problem.some THEN BackendReturn(bounds_row(t))
        ELSE IF pairs = <<>>
        THEN BackendReturn(bounds_row(
                 [t EXCEPT !.problem = Problem(t.problem.maximize, objective, constraints)]))
        ELSE LET i == pairs[1][1]
                 v == pairs[1][2]
             IN  IF i >= Len(constraints) THEN BackendRaise("IndexError", t)
                 ELSE IF constraints[i + 1].kind # "=="
                 THEN BackendReturn(bounds_row([t EXCEPT !.problem = NoProblem]))
                 ELSE BackendReturn(bounds_row(
                          [t EXCEPT !.problem =
                              Problem(t.problem.maximize, objective,
                                      [constraints EXCEPT ![i + 1].expr =
                                          AddTerm(@, index, v, t.ncols)])]))

\* solve() up to the call of cvxpy's solver
solve(s) ==
    IF ~s.problem.some THEN [s EXCEPT !.problem = init_cvxpy_problem(s)] ELSE s

---------------------------------------------------------------------------
(* The backend session: a CVXPYBackend is constructed, then up to MaxCalls *)
(* of its methods are called; gst holds the backend, gin the last call     *)

Coefficients01 == {0, 1}
ObjectiveValues == {0, 1, 2}
RowBounds == {<<NoBound, Bound(1)>>, <<Bound(1), Bound(1)>>, <<Bound(0), Bound(1)>>}
ColumnBounds == {<<Bound(0), NoBound>>, <<NoBound, NoBound>>}

NewBackend ==
    [ncols |-> 0, objective_coefficients |-> <<>>, is_maximize |-> TRUE,
     rows |-> <<>>, problem |-> NoProblem]

BackendInit ==
    /\ gin = [call |-> "__cinit__", err |-> "none", n |-> 0]
    /\ gst = NewBackend
    /\ FSIdle
    /\ PTIdle
    /\ ETIdle
    /\ PDIdle

BackendCall(name, out) ==
    /\ gin.n < MaxCalls
    /\ gin' = [call |-> name, err |-> out.err, n |-> gin.n + 1]
    /\ gst' = out.s
    /\ UNCHANGED <<fsVars, ptVars, etVars, pdVars>>

Solve == BackendCall("solve", BackendReturn(solve(gst)))

SetObjective ==
    \E coeff \in [1..gst.ncols -> Coefficients01] :
        BackendCall("set_objective", BackendReturn(set_objective(gst, coeff)))

SetSense ==
    \E sense \in {-1, 1} : BackendCall("set_sense", BackendReturn(set_sense(gst, sense)))

ObjectiveCoefficient ==
    \E variable \in 0..(gst.ncols - 1), coeff \in ObjectiveValues :
        BackendCall("objective_coefficient",
                    BackendReturn(objective_coefficient(gst, variable, coeff)))

AddVariable ==
    \E bounds \in ColumnBounds, vtype \in 0..2, obj \in Coefficients01,
       coefficients \in {NotGiven} \cup {Given(<<<<i, 1>>>>) : i \in 0..(Len(gst.rows) - 1)} :
        BackendCall("add_variable",
                    add_variable(gst, bounds[1], bounds[2], vtype, obj, coefficients))

AddLinearConstraint ==
    \E cv \in [1..gst.ncols -> Coefficients01], bounds \in RowBounds :
        BackendCall("add_linear_constraint",
                    BackendReturn(add_linear_constraint(
                        gst, SelectSeq([k \in 1..gst.ncols |-> <<k - 1, cv[k]>>],
                                       LAMBDA pr : pr[2] # 0),
                        bounds[1], bounds[2])))

BackendNext ==
    \/ Solve
    \/ SetObjective
    \/ SetSense
    \/ ObjectiveCoefficient
    \/ AddVariable
    \/ AddLinearConstraint

SpecBackend == BackendInit /\ [][BackendNext]_vars

---------------------------------------------------------------------------
(* Properties of CVXPYBackend *)

\* two expressions with the same coefficient for every variable
SameExpr(x, y, width) == \A j \in 0..(width - 1) : Coef(x, j) = Coef(y, j)

\* two problems with the same objective and the same constraints
SameProblem(x, y, width) ==
    /\ x.some = y.some
    /\ x.maximize = y.maximize
    /\ SameExpr(x.expr, y.expr, width)
    /\ Len(x.constraints) = Len(y.constraints)
    /\ \A i \in 1..Len(x.constraints) :
          /\ x.constraints[i].kind = y.constraints[i].kind
          /\ x.constraints[i].bound = y.constraints[i].bound
          /\ SameExpr(x.constraints[i].expr, y.constraints[i].expr, width)

\* C30: once the cached problem exists, after every call of set_objective,
\* objective_coefficient, set_sense, add_variable or add_linear_constraint
\* that returns, the cached problem (if it was kept) has the objective and
\* the constraints that init_cvxpy_problem makes from the stored data
C30_CachedProblemIsRebuilt ==
    (gst.problem.some /\ gin.err = "none") =>
        SameProblem(gst.problem, init_cvxpy_problem(gst), gst.ncols)

=============================================================================
